---- MODULE Spec2Model ----
(***************************************************************************)
(* A model of ipx (workupsrl/ipx): the request engine of createIPX, its    *)
(* two suppliers, the handler pipeline and the HTTP facade handleRequest.  *)
(*                                                                         *)
(* Strings are sequences of one-character strings, so that prefix tests,   *)
(* splitting, joining and escaping are computed as the code computes them. *)
(* Each component has its own group of variables and its own               *)
(* specification; a specification leaves the other groups untouched.       *)
(***************************************************************************)
EXTENDS Integers, Sequences, FiniteSets, TLC

VARIABLES
  \* ---- image descriptor memoization (cachedPromise, ipx.getSrc/getData)
  mSources,     \* names of the suppliers in ctx.sources
  mId,          \* the normalized id the descriptor was built for
  pSrc,         \* the `p` cell of cachedPromise(getSrc producer)
  pData,        \* the `p` cell of cachedPromise(getData producer)
  srcRuns,      \* how often the producer behind src() was invoked
  dataRuns,     \* how often the producer behind data() was invoked
  srcThrown,    \* how many calls of src() threw synchronously
  mCalls,       \* calls of src()/data() made by the descriptor's users
  dataPc,       \* where the async producer of data() is suspended
  mInvoked,     \* names of the suppliers the producer of getSrc has called
  mErr,         \* the error the producer of getSrc threw last, NoError when none
  \* ---- id normalization (createIPX alias normalization, ipx alias loop)
  nUserAlias,   \* userOptions.alias: entries <<key, value>> in insertion order
  nAlias,       \* options.alias after createIPX
  nInput,       \* the id passed to ipx()
  nId,          \* the id after normalization and alias rewriting
  nFired,       \* how many alias entries rewrote the id
  nPc,          \* "new" | "created" | "called" | "threw"
  \* ---- filesystem supplier (createFilesystemSource)
  fsDir,        \* options.dir
  rootDir,      \* resolve(options.dir)
  fsId,         \* the id the supplier is called with
  fsPath,       \* resolve(join(rootDir, id))
  fsPc,         \* "new" | "created" | "stat" | "ready" | "read" | "failed"
  fsAccessed,   \* the <<operation, path>> pairs handed to fs.promises
  fsErr,        \* the error the supplier threw, NoError when none
  fsMaxAge,     \* options.maxAge
  fsFound,      \* what fs.stat met: "none" before it returns
  fsDesc,       \* the descriptor the supplier resolved with
  \* ---- HTTP supplier (createHTTPSource)
  hDomainsOpt,  \* options.domains: an array of strings or one string
  domains,      \* the allow-listed hostnames createHTTPSource keeps
  hId,          \* the id the supplier is called with
  hBypass,      \* reqOptions?.bypassDomain: "absent", "false" or "true"
  hPc,          \* "new" | "created" | "broken" | "fetch" | "ready" | "failed"
  hFetched,     \* the ids handed to fetch()
  hErr,         \* the error the supplier threw, NoError when none
  hAnswered,    \* has the origin answered the fetch
  hStatus,      \* response.status of the origin's answer
  hDesc,        \* the descriptor the supplier resolved with
  hBodyReads,   \* the number of calls of response.arrayBuffer()
  hResponse,    \* what handleRequest answers when the supplier has failed
  \* ---- handler pipeline of getData
  modifiers,    \* the modifier map: entries <<name, value>> in insertion order
  metaType,     \* meta.type of the decoded source
  handlerCtx,   \* the handler context: what the setters stored
  applied,      \* the names of the handlers applied, in order
  pipe,         \* the calls made on the sharp pipeline, in order
  plPc,         \* "start" | "handlers" | "svg" | "buffer" | "done" | "failed"
  plFormat,     \* the format data() resolves with, empty before the decode
  toFormatCalls, \* the calls of sharp.toFormat, in order
  \* ---- HTTP facade (handleRequest, _handleRequest)
  req,          \* the request: url and headers
  rqPc,         \* "idle" | "awaitSrc" | "awaitData" | "responded"
  rqId,         \* the decoded id
  rqModifiers,  \* the decoded modifier map
  res,          \* the response record _handleRequest builds
  response,     \* what handleRequest resolved with
  rqSrc,        \* what img.src() resolved with
  rqData,       \* what img.data() resolved with
  engineCalls,  \* calls of ipx() made for this request
  srcCalls,     \* calls of img.src() made for this request
  dataCalls,    \* calls of img.data() made for this request
  prevOk,       \* the ETag header and the bytes of the last 200 response sent
  rqErr,        \* the error handleRequest caught, NotThrown when none
  \* ---- response shaper (sanetizeReponse) on its own
  shIn,         \* the response record passed in
  shOut,        \* the record returned
  shPc,         \* "start" | "done"
  \* ---- external cache inside getData
  cEnabled,     \* IPX_CACHE_ENABLED is set and ctx.cache exists
  cache,        \* the cache: key -> element
  cReq,         \* the descriptor: normalized id, modifier map, type of the source
  cPc,          \* "idle" | "get" | "src" | "read" | "codec" | "set" | "done" | "failed"
  cMatch,       \* cache.get returned an entry
  cStages,      \* what has succeeded in this data() invocation
  cResult,      \* what data() resolved with
  cWrites,      \* calls of cache.set in this data() invocation
  cReads,       \* calls of cache.get in this data() invocation
  cBefore,      \* the cache when this data() invocation began
  cCount,        \* data() invocations so far
  \* ---- the size of the resize handler
  clSrc,        \* context.meta: the width and height of the source
  clW,          \* the width of the size asked for
  clH,          \* the height of the size asked for, 0 when the size has none
  clEnlarge,    \* context.enlarge
  clOut,        \* the width and height passed to pipe.resize
  clPc,          \* "start" | "resized"
  \* ---- the arguments of a handler, from the url to the codec
  aName,        \* the name of the entry's handler
  aFirst,       \* the separator written after the name
  aInner,       \* the separator written between the arguments
  aArgs,        \* the arguments written
  aModifiers,   \* the modifier map _handleRequest built
  aCall,        \* the call the handler made on the codec
  aPc,           \* "url" | "decoded" | "applied"
  \* ---- the url cache of middleware.ts
  uEnabled,     \* IPX_CACHE_ENABLED
  uDefault,     \* DEFAULT_CACHE_MAX_AGE, in seconds
  uCache,       \* the map: url -> [element, timestamp, expiry]
  uNow,         \* the clock, in seconds
  uImgs,        \* the image descriptors made, each with its memoized src and data
  uReq          \* what each client's request is at

varsMemo == <<mSources, mId, pSrc, pData, srcRuns, dataRuns, srcThrown, mCalls, dataPc, mInvoked, mErr>>
varsNorm == <<nUserAlias, nAlias, nInput, nId, nFired, nPc>>
varsFs == <<fsDir, rootDir, fsId, fsPath, fsPc, fsAccessed, fsErr, fsMaxAge, fsFound, fsDesc>>
varsHttp == <<hDomainsOpt, domains, hId, hBypass, hPc, hFetched, hErr,
              hAnswered, hStatus, hDesc, hBodyReads, hResponse>>
varsPipe == <<modifiers, metaType, handlerCtx, applied, pipe, plPc, plFormat,
              toFormatCalls>>
varsReq == <<req, rqPc, rqId, rqModifiers, res, response, rqSrc, rqData,
            engineCalls, srcCalls, dataCalls, prevOk, rqErr>>
varsShape == <<shIn, shOut, shPc>>
varsCache == <<cEnabled, cache, cReq, cPc, cMatch, cStages, cResult, cWrites, cReads,
              cBefore, cCount>>
varsClamp == <<clSrc, clW, clH, clEnlarge, clOut, clPc>>
varsArgs == <<aName, aFirst, aInner, aArgs, aModifiers, aCall, aPc>>
varsUrl == <<uEnabled, uDefault, uCache, uNow, uImgs, uReq>>
vars == <<varsMemo, varsNorm, varsFs, varsHttp, varsPipe, varsReq, varsShape, varsCache, varsClamp, varsArgs, varsUrl>>

\* what the actions of one component leave alone
NotMemo == <<varsNorm, varsFs, varsHttp, varsPipe, varsReq, varsShape, varsCache, varsClamp, varsArgs, varsUrl>>
NotNorm == <<varsMemo, varsFs, varsHttp, varsPipe, varsReq, varsShape, varsCache, varsClamp, varsArgs, varsUrl>>
NotFs == <<varsMemo, varsNorm, varsHttp, varsPipe, varsReq, varsShape, varsCache, varsClamp, varsArgs, varsUrl>>
NotHttp == <<varsMemo, varsNorm, varsFs, varsPipe, varsReq, varsShape, varsCache, varsClamp, varsArgs, varsUrl>>
NotPipe == <<varsMemo, varsNorm, varsFs, varsHttp, varsReq, varsShape, varsCache, varsClamp, varsArgs, varsUrl>>
NotReq == <<varsMemo, varsNorm, varsFs, varsHttp, varsPipe, varsShape, varsCache, varsClamp, varsArgs, varsUrl>>
NotShape == <<varsMemo, varsNorm, varsFs, varsHttp, varsPipe, varsReq, varsCache, varsClamp, varsArgs, varsUrl>>
NotCache == <<varsMemo, varsNorm, varsFs, varsHttp, varsPipe, varsReq, varsShape, varsClamp, varsArgs, varsUrl>>
NotClamp == <<varsMemo, varsNorm, varsFs, varsHttp, varsPipe, varsReq, varsShape, varsCache, varsArgs, varsUrl>>
NotArgs == <<varsMemo, varsNorm, varsFs, varsHttp, varsPipe, varsReq, varsShape, varsCache, varsClamp, varsUrl>>
NotUrl == <<varsMemo, varsNorm, varsFs, varsHttp, varsPipe, varsReq, varsShape, varsCache, varsClamp, varsArgs>>

(***************************************************************************)
(* Strings                                                                 *)
(***************************************************************************)
WordChars == {"a", "b", "c", "d", "e", "h", "p", "s", "t", "x", "A", "_",
              "0", "1", "2", "F"}

StartsWith(s, pre) ==
  /\ Len(pre) <= Len(s)
  /\ SubSeq(s, 1, Len(pre)) = pre

EndsWith(s, suf) ==
  /\ Len(suf) <= Len(s)
  /\ SubSeq(s, Len(s) - Len(suf) + 1, Len(s)) = suf

\* s.substr(n) / s.substring(n) / s.slice(n), n counted from 0
Substr(s, n) == IF n >= Len(s) THEN <<>> ELSE SubSeq(s, n + 1, Len(s))

\* the index of the first character of s that lies in cs, 0 when none does
IndexOfAny(s, cs) ==
  IF \E i \in 1..Len(s) : s[i] \in cs
    THEN CHOOSE i \in 1..Len(s) : s[i] \in cs /\ \A j \in 1..(i - 1) : s[j] \notin cs
    ELSE 0

\* s.indexOf(c) + 1
IndexOf(s, c) == IndexOfAny(s, {c})

\* s.split(/[cs]/) for a class of one-character separators: always at least
\* one piece
RECURSIVE SplitAny(_, _)
SplitAny(s, cs) ==
  LET i == IndexOfAny(s, cs)
  IN IF i = 0 THEN <<s>>
     ELSE <<SubSeq(s, 1, i - 1)>> \o SplitAny(Substr(s, i), cs)

\* s.split(c)
Split(s, c) == SplitAny(s, {c})

\* pieces.join(c)
RECURSIVE JoinWith(_, _)
JoinWith(pieces, c) ==
  IF Len(pieces) = 0 THEN <<>>
  ELSE IF Len(pieces) = 1 THEN pieces[1]
  ELSE pieces[1] \o <<c>> \o JoinWith(Tail(pieces), c)

(***************************************************************************)
(* ufo helpers used by createIPX and ipx                                   *)
(***************************************************************************)
\* hasProtocol: the id starts with one or more word characters and a colon
HasProtocol(s) ==
  LET i == IndexOf(s, ":")
  IN /\ i > 1
     /\ \A j \in 1..(i - 1) : s[j] \in WordChars

WithLeadingSlash(s) == IF StartsWith(s, <<"/">>) THEN s ELSE <<"/">> \o s

WithTrailingSlash(s) == IF EndsWith(s, <<"/">>) THEN s ELSE s \o <<"/">>

WithoutLeadingSlash(s) ==
  LET r == IF StartsWith(s, <<"/">>) THEN Substr(s, 1) ELSE s
  IN IF r = <<>> THEN <<"/">> ELSE r

\* joinURL(base, input) with a single input
JoinURL(base, input) ==
  IF input = <<>> \/ input = <<"/">> THEN base
  ELSE IF base = <<>> THEN input
  ELSE WithTrailingSlash(base) \o WithoutLeadingSlash(input)

(***************************************************************************)
(* Bounds                                                                  *)
(***************************************************************************)
\* calls of src()/data() on one image descriptor
MaxCalls == 3

(***************************************************************************)
(* Image descriptor: cachedPromise, getSrc, getData                        *)
(***************************************************************************)
HttpScheme == <<"h", "t", "t", "p", ":", "/", "/">>

MemoIds == { <<"/", "a">>, HttpScheme \o <<"a", "/", "x">>, <<"x", ":", "a">> }

\* One call of the function cachedPromise(fn) returns. p is the cell before
\* the call; outcome is what fn does if it is run: "throw" (it throws before
\* returning) or "promise" (it returns a promise).  Promise.resolve(fn())
\* is assigned to p only when fn() returned.
CachedPromiseCall(p, outcome) ==
  IF p # "none"
    THEN [p |-> p, ran |-> FALSE, threw |-> FALSE]
    ELSE IF outcome = "throw"
      THEN [p |-> "none", ran |-> TRUE, threw |-> TRUE]
      ELSE [p |-> "pending", ran |-> TRUE, threw |-> FALSE]

\* a selection that sends only http:// ids to the http supplier
SelectSourceHttpOnly(id) == IF StartsWith(id, HttpScheme) THEN "http" ELSE "filesystem"

\* the supplier the producer of getSrc selects for an id
SelectSource(id) == IF HasProtocol(id) THEN "http" ELSE "filesystem"

\* the producer of getSrc is a plain function: a missing supplier makes it
\* throw, otherwise it returns the supplier's promise
GetSrcOutcome(sources, id) ==
  IF SelectSource(id) \notin sources THEN "throw" ELSE "promise"

\* the suppliers called once a call of the getSrc cell has returned
InvokedAfter(invoked, r, id) ==
  IF r.ran /\ ~r.threw THEN invoked \cup {SelectSource(id)} ELSE invoked

\* the error thrown last once a call of the getSrc cell has returned
ErrAfter(err, r) ==
  IF r.threw THEN [statusCode |-> 400, statusMessage |-> "Unknown source"] ELSE err

MemoInit ==
  /\ mSources \in SUBSET {"filesystem", "http"}
  /\ mId \in MemoIds
  /\ pSrc = "none"
  /\ pData = "none"
  /\ srcRuns = 0
  /\ dataRuns = 0
  /\ srcThrown = 0
  /\ mCalls = 0
  /\ dataPc = "idle"
  /\ mInvoked = {}
  /\ mErr = [statusCode |-> 0, statusMessage |-> ""]

MemoIdle ==
  /\ mSources = {}
  /\ mId = <<>>
  /\ pSrc = "none"
  /\ pData = "none"
  /\ srcRuns = 0
  /\ dataRuns = 0
  /\ srcThrown = 0
  /\ mCalls = 0
  /\ dataPc = "idle"
  /\ mInvoked = {}
  /\ mErr = [statusCode |-> 0, statusMessage |-> ""]

\* a user of the descriptor calls img.src()
CallSrc ==
  /\ mCalls < MaxCalls
  /\ LET r == CachedPromiseCall(pSrc, GetSrcOutcome(mSources, mId))
     IN /\ pSrc' = r.p
        /\ srcRuns' = srcRuns + (IF r.ran THEN 1 ELSE 0)
        /\ srcThrown' = srcThrown + (IF r.threw THEN 1 ELSE 0)
        /\ mInvoked' = InvokedAfter(mInvoked, r, mId)
        /\ mErr' = ErrAfter(mErr, r)
  /\ mCalls' = mCalls + 1
  /\ UNCHANGED <<mSources, mId, pData, dataRuns, dataPc>>
  /\ UNCHANGED NotMemo

\* a user of the descriptor calls img.data(); the producer is an async
\* function, which (IPX_CACHE_ENABLED being unset) runs up to
\* `await getSrc()` inside the call: a throw of getSrc() there rejects the
\* promise the async function returns
CallData ==
  /\ mCalls < MaxCalls
  /\ LET d == CachedPromiseCall(pData, "promise")
         r == CachedPromiseCall(pSrc, GetSrcOutcome(mSources, mId))
     IN IF ~d.ran
          THEN UNCHANGED <<pData, dataRuns, pSrc, srcRuns, dataPc, mInvoked, mErr>>
          ELSE /\ dataRuns' = dataRuns + 1
               /\ mInvoked' = InvokedAfter(mInvoked, r, mId)
               /\ mErr' = ErrAfter(mErr, r)
               /\ pSrc' = r.p
               /\ srcRuns' = srcRuns + (IF r.ran THEN 1 ELSE 0)
               /\ pData' = IF r.threw THEN "rejected" ELSE d.p
               /\ dataPc' = IF r.threw THEN "done" ELSE "awaitSrc"
  /\ mCalls' = mCalls + 1
  /\ UNCHANGED <<mSources, mId, srcThrown>>
  /\ UNCHANGED NotMemo

\* the supplier's promise settles
SupplierSettles ==
  /\ pSrc = "pending"
  /\ pSrc' \in {"fulfilled", "rejected"}
  /\ UNCHANGED <<mSources, mId, pData, srcRuns, dataRuns, srcThrown, mCalls, dataPc>>
  /\ UNCHANGED <<mInvoked, mErr>>
  /\ UNCHANGED NotMemo

\* getData resumes after `await getSrc()`
DataAfterSrc ==
  /\ dataPc = "awaitSrc"
  /\ pSrc \in {"fulfilled", "rejected"}
  /\ IF pSrc = "rejected"
       THEN pData' = "rejected" /\ dataPc' = "done"
       ELSE pData' = pData /\ dataPc' = "awaitPipeline"
  /\ UNCHANGED <<mSources, mId, pSrc, srcRuns, dataRuns, srcThrown, mCalls>>
  /\ UNCHANGED <<mInvoked, mErr>>
  /\ UNCHANGED NotMemo

\* src.getData(), the decode and sharp.toBuffer() end, well or not
DataSettles ==
  /\ dataPc = "awaitPipeline"
  /\ pData' \in {"fulfilled", "rejected"}
  /\ dataPc' = "done"
  /\ UNCHANGED <<mSources, mId, pSrc, srcRuns, dataRuns, srcThrown, mCalls>>
  /\ UNCHANGED <<mInvoked, mErr>>
  /\ UNCHANGED NotMemo

NextMemo ==
  \/ CallSrc
  \/ CallData
  \/ SupplierSettles
  \/ DataAfterSrc
  \/ DataSettles

(***************************************************************************)
(* Id normalization and alias rewriting: createIPX, ipx                    *)
(***************************************************************************)
\* entries of one alias map
MaxAlias == 2

AliasKeys == { <<"/", "a">>, <<"a">>, <<"/", "b">> }

AliasValues == { <<"/", "b">>, <<"/", "c">>, <<"b">>, HttpScheme \o <<"a">> }

NormInputs ==
  { <<>>, <<"a", "/", "x">>, <<"/", "a", "/", "x">>, <<"/", "b", "/", "x">>,
    <<"/", "a">>, <<"x">>, HttpScheme \o <<"a", "/", "x">> }

\* the alias maps a user can write: entries in insertion order, keys unique
AliasMaps ==
  { m \in UNION { [1..k -> AliasKeys \X AliasValues] : k \in 0..MaxAlias } :
      \A i, j \in 1..Len(m) : i # j => m[i][1] # m[j][1] }

\* Object.fromEntries: a repeated key keeps its first place and takes the
\* last value
RECURSIVE FromEntries(_)
FromEntries(es) ==
  IF es = <<>> THEN <<>>
  ELSE LET init == FromEntries(SubSeq(es, 1, Len(es) - 1))
           e == es[Len(es)]
       IN IF \E i \in 1..Len(init) : init[i][1] = e[1]
            THEN [i \in 1..Len(init) |-> IF init[i][1] = e[1] THEN e ELSE init[i]]
            ELSE Append(init, e)

\* options.alias as createIPX stores it: every key gets a leading slash
NormalizeAlias(alias) ==
  FromEntries([i \in 1..Len(alias) |-> <<WithLeadingSlash(alias[i][1]), alias[i][2]>>])

\* the loop `for (const base in options.alias)` of ipx, from entry k on
RECURSIVE AliasLoop(_, _)
AliasLoop(alias, id) ==
  IF alias = <<>> THEN [id |-> id, fired |-> 0]
  ELSE LET base == alias[1][1]
           hit == StartsWith(id, base)
           id2 == IF hit THEN JoinURL(alias[1][2], Substr(id, Len(base))) ELSE id
           r == AliasLoop(Tail(alias), id2)
       IN [id |-> r.id, fired |-> r.fired + (IF hit THEN 1 ELSE 0)]

\* the id ipx works with
NormalizeId(alias, id) ==
  AliasLoop(alias, IF HasProtocol(id) THEN id ELSE WithLeadingSlash(id))

NormInit ==
  /\ nUserAlias \in AliasMaps
  /\ nInput \in NormInputs
  /\ nAlias = <<>>
  /\ nId = <<>>
  /\ nFired = 0
  /\ nPc = "new"

NormIdle ==
  /\ nUserAlias = <<>>
  /\ nInput = <<>>
  /\ nAlias = <<>>
  /\ nId = <<>>
  /\ nFired = 0
  /\ nPc = "new"

CreateIPX ==
  /\ nPc = "new"
  /\ nAlias' = NormalizeAlias(nUserAlias)
  /\ nPc' = "created"
  /\ UNCHANGED <<nUserAlias, nInput, nId, nFired>>
  /\ UNCHANGED NotNorm

\* ipx(id): an empty id throws, any other id is normalized and rewritten
IpxCall ==
  /\ nPc = "created"
  /\ IF nInput = <<>>
       THEN /\ nPc' = "threw"
            /\ UNCHANGED <<nId, nFired>>
       ELSE LET r == NormalizeId(nAlias, nInput)
            IN /\ nId' = r.id
               /\ nFired' = r.fired
               /\ nPc' = "called"
  /\ UNCHANGED <<nUserAlias, nAlias, nInput>>
  /\ UNCHANGED NotNorm

NextNorm ==
  \/ CreateIPX
  \/ IpxCall


(***************************************************************************)
(* Errors: createError(statusMessage, statusCode, trace)                   *)
(***************************************************************************)
NoError == [statusCode |-> 0, statusMessage |-> ""]

\* err.statusMessage = "IPX: " + statusMessage, kept here without the prefix
CreateError(statusMessage, statusCode) ==
  [statusCode |-> statusCode, statusMessage |-> statusMessage]

(***************************************************************************)
(* Filesystem supplier: createFilesystemSource, isValidPath (POSIX host)   *)
(***************************************************************************)
\* path segments of one id
MaxSegs == 3

FsDirs == { <<"/", "d">>, <<"/", "d", "/">>, <<"/">> }

FsSegs == { <<".", ".">>, <<".">>, <<"a">>, <<"d">>, <<"d", "x">>, <<"c", ":">> }

\* "/" followed by one to MaxSegs segments joined with "/"
FsIds ==
  { <<"/">> \o JoinWith(segs, "/") :
      segs \in UNION { [1..k -> FsSegs] : k \in 1..MaxSegs } }

\* pathe turns every backslash into a slash before it works on a path
RECURSIVE Slashes(_)
Slashes(s) ==
  IF s = <<>> THEN <<>>
  ELSE <<IF s[1] = "\\" THEN "/" ELSE s[1]>> \o Slashes(Tail(s))

\* the segments of an absolute path with "", "." dropped and ".." resolved
RECURSIVE ResolveSegs(_, _)
ResolveSegs(segs, stack) ==
  IF segs = <<>> THEN stack
  ELSE LET g == segs[1]
       IN IF g = <<>> \/ g = <<".">> THEN ResolveSegs(Tail(segs), stack)
          ELSE IF g = <<".", ".">>
            THEN ResolveSegs(Tail(segs),
                   IF stack = <<>> THEN stack ELSE SubSeq(stack, 1, Len(stack) - 1))
            ELSE ResolveSegs(Tail(segs), Append(stack, g))

\* pathe resolve() of an absolute path
Resolve(p) == <<"/">> \o JoinWith(ResolveSegs(Split(Slashes(p), "/"), <<>>), "/")

\* pathe join(a, b)
Join(a, b) == Resolve(a \o <<"/">> \o b)

\* isValidPath: none of the characters < > : " | ? *
InvalidPathChars == {"<", ">", ":", "\"", "|", "?", "*"}
IsValidPath(fp) == \A i \in 1..Len(fp) : fp[i] \notin InvalidPathChars

\* the check of the supplier before it touches the disk
PathAllowed(root, fp) == IsValidPath(fp) /\ StartsWith(fp, root)

NoDesc == [returned |-> FALSE, mtime |-> 0, maxAge |-> 0]

\* a mapping that reports every failure of fs.stat as 404
StatErrorAlwaysNotFound(found) ==
  IF found = "file" THEN NoError ELSE CreateError("File not found", 404)

\* the error the supplier throws for what fs.stat met: a rejection with
\* code ENOENT, a rejection with another code, something that is no file
StatError(found) ==
  IF found = "ENOENT" THEN CreateError("File not found", 404)
  ELSE IF found = "EACCES" THEN CreateError("File access error EACCES", 403)
  ELSE IF found = "directory" THEN CreateError("Path should be a file", 400)
  ELSE NoError

FsInit ==
  /\ fsMaxAge \in {3, 9}
  /\ fsFound = "none"
  /\ fsDesc = NoDesc
  /\ fsDir \in FsDirs
  /\ fsId \in FsIds
  /\ rootDir = <<>>
  /\ fsPath = <<>>
  /\ fsPc = "new"
  /\ fsAccessed = {}
  /\ fsErr = NoError

FsIdle ==
  /\ fsMaxAge = 0
  /\ fsFound = "none"
  /\ fsDesc = NoDesc
  /\ fsDir = <<>>
  /\ fsId = <<>>
  /\ rootDir = <<>>
  /\ fsPath = <<>>
  /\ fsPc = "new"
  /\ fsAccessed = {}
  /\ fsErr = NoError

CreateFilesystemSource ==
  /\ fsPc = "new"
  /\ rootDir' = Resolve(fsDir)
  /\ fsPc' = "created"
  /\ UNCHANGED <<fsDir, fsId, fsPath, fsAccessed, fsErr, fsMaxAge, fsFound, fsDesc>>
  /\ UNCHANGED NotFs

\* the supplier is called: the path check, then fs.promises.stat(fsPath)
FsSupplierCall ==
  /\ fsPc = "created"
  /\ LET fp == Resolve(Join(rootDir, fsId))
     IN /\ fsPath' = fp
        /\ IF ~PathAllowed(rootDir, fp)
             THEN /\ fsErr' = CreateError("Forbidden path", 403)
                  /\ fsPc' = "failed"
                  /\ UNCHANGED fsAccessed
             ELSE /\ fsAccessed' = fsAccessed \cup {<<"stat", fp>>}
                  /\ fsPc' = "stat"
                  /\ UNCHANGED fsErr
  /\ UNCHANGED <<fsDir, rootDir, fsId, fsMaxAge, fsFound, fsDesc>>
  /\ UNCHANGED NotFs

\* stat returns: what is on the disk at fsPath is the environment's choice
FsStatReturns ==
  /\ fsPc = "stat"
  /\ \E found \in {"ENOENT", "EACCES", "directory", "file"}, mtime \in {5, 7} :
       /\ fsFound' = found
       /\ fsErr' = StatError(found)
       /\ IF StatError(found) = NoError
            THEN /\ fsPc' = "ready"
                 /\ fsDesc' = [returned |-> TRUE, mtime |-> mtime, maxAge |-> fsMaxAge]
            ELSE /\ fsPc' = "failed"
                 /\ UNCHANGED fsDesc
  /\ UNCHANGED <<fsDir, rootDir, fsId, fsPath, fsAccessed, fsMaxAge>>
  /\ UNCHANGED NotFs

\* getData() of the returned descriptor: fs.promises.readFile(fsPath)
FsGetData ==
  /\ fsPc = "ready"
  /\ fsAccessed' = fsAccessed \cup {<<"readFile", fsPath>>}
  /\ fsPc' = "read"
  /\ UNCHANGED <<fsDir, rootDir, fsId, fsPath, fsErr, fsMaxAge, fsFound, fsDesc>>
  /\ UNCHANGED NotFs

NextFs ==
  \/ CreateFilesystemSource
  \/ FsSupplierCall
  \/ FsStatReturns
  \/ FsGetData


(***************************************************************************)
(* HTTP supplier: createHTTPSource                                         *)
(***************************************************************************)
\* entries of options.domains
MaxDomains == 2

HttpsScheme == <<"h", "t", "t", "p", "s", ":", "/", "/">>

\* HTTP_RE = /^https?:\/\//
HTTP_RE(d) == StartsWith(d, HttpScheme) \/ StartsWith(d, HttpsScheme)

\* the lower-case form of a character, as the URL parser writes a host
LowerChar(c) == IF c = "A" THEN "a" ELSE c
Lower(s) == [i \in 1..Len(s) |-> LowerChar(s[i])]

\* the index of the first character of s that lies in cs, Len(s) + 1 if none
FirstOf(s, cs) ==
  IF \E i \in 1..Len(s) : s[i] \in cs
    THEN CHOOSE i \in 1..Len(s) : s[i] \in cs /\ \A j \in 1..(i - 1) : s[j] \notin cs
    ELSE Len(s) + 1

RECURSIVE StripLeading(_, _)
StripLeading(s, cs) ==
  IF s # <<>> /\ s[1] \in cs THEN StripLeading(Tail(s), cs) ELSE s

\* String.prototype.trim
RECURSIVE TrimEnd(_)
TrimEnd(s) ==
  IF s # <<>> /\ s[Len(s)] = " " THEN TrimEnd(SubSeq(s, 1, Len(s) - 1)) ELSE s
Trim(s) == TrimEnd(StripLeading(s, {" "}))

\* new URL(s).hostname: ok is FALSE where the constructor throws. A scheme,
\* then for http and https the authority after any slashes (a URL of these
\* schemes without a host is invalid), for another scheme the authority
\* after "//" if there is one; the hostname is the authority without its
\* port, in lower case for http and https.
ParseURL(s) ==
  LET i == IndexOf(s, ":")
      scheme == Lower(SubSeq(s, 1, i - 1))
      rest == Substr(s, i)
      special == scheme \in { <<"h", "t", "t", "p">>, <<"h", "t", "t", "p", "s">> }
      after == IF special THEN StripLeading(rest, {"/", "\\"})
               ELSE IF StartsWith(rest, <<"/", "/">>) THEN Substr(rest, 2)
               ELSE <<>>
      authority == SubSeq(after, 1, FirstOf(after, {"/", "\\", "?", "#"}) - 1)
      host == SubSeq(authority, 1, FirstOf(authority, {":"}) - 1)
  IN IF ~HasProtocol(s) THEN [ok |-> FALSE, hostname |-> <<>>]
     ELSE IF special /\ host = <<>> THEN [ok |-> FALSE, hostname |-> <<>>]
     ELSE [ok |-> TRUE, hostname |-> IF special THEN Lower(host) ELSE host]

DomainEntries ==
  { <<"a">>, HttpScheme \o <<"a">>, HttpsScheme \o <<"b">>,
    <<"a", "/", "x">>, <<"A">> }

\* options.domains as the user writes it
DomainOptions ==
  { [kind |-> "array", items |-> ds] :
      ds \in UNION { [1..k -> DomainEntries] : k \in 0..MaxDomains } }
  \cup
  { [kind |-> "string", value |-> v] :
      v \in { <<"a", ",", "b">>, <<"a", ",", " ", "b">>, <<"a", ",">> } }

HttpIds ==
  { HttpScheme \o <<"a", "/", "x">>, HttpScheme \o <<"b", "/", "x">>,
    HttpsScheme \o <<"a", "/", "x">>, HttpScheme \o <<"A", "/", "x">>,
    HttpScheme \o <<"a", ":", "1", "/", "x">>,
    HttpScheme \o <<"a", "b", "/", "x">>,
    HttpScheme \o <<"x", "/", "a">>,
    <<"x", ":", "a">>, HttpScheme }

\* the list of strings createHTTPSource starts from
DomainStrings(opt) ==
  IF opt.kind = "string"
    THEN LET parts == Split(opt.value, ",")
         IN [i \in 1..Len(parts) |-> Trim(parts[i])]
    ELSE opt.items

\* one entry with "http://" put in front of it when it has no http(s) scheme
WithScheme(d) == IF HTTP_RE(d) THEN d ELSE HttpScheme \o d

\* .filter(Boolean) on a list of hostnames
RECURSIVE FilterNonEmpty(_)
FilterNonEmpty(hs) ==
  IF hs = <<>> THEN <<>>
  ELSE (IF hs[1] = <<>> THEN <<>> ELSE <<hs[1]>>) \o FilterNonEmpty(Tail(hs))

\* does domains.find((domain) => hostname === domain) find an entry
DomainFound(ds, hostname) == \E i \in 1..Len(ds) : ds[i] = hostname

Truthy(v) == v = "true"

\* a host check that accepts any hostname an allow-listed one is a prefix of
ForbiddenHostPrefix(bypassDomain, ds, hostname) ==
  ~Truthy(bypassDomain) /\ ~\E i \in 1..Len(ds) : StartsWith(hostname, ds[i])

\* the condition under which the supplier throws "Forbidden host"
ForbiddenHost(bypassDomain, ds, hostname) ==
  ~Truthy(bypassDomain) /\ ~DomainFound(ds, hostname)

NoHttpDesc == [returned |-> FALSE, hasMtime |-> FALSE, mtime |-> 0, maxAge |-> 0]

\* no response yet; the status message and the body are texts
NoAnswer == [statusCode |-> 0, statusMessage |-> <<>>, headers |-> <<>>,
             body |-> [kind |-> "undefined", value |-> <<>>]]

\* the statuses the origin answers with: 0 stands for a missing status
OriginStatuses == {0, 200, 204, 304, 404, 500, 503}

\* a failure status that does not depend on the origin's status
FetchErrorStatusFixed(status) == 500

\* response.status || 500
FetchErrorStatus(status) == IF status # 0 THEN status ELSE 500

\* response.statusText of the origin's answer
FetchStatusText(status) ==
  CASE status = 304 -> <<"Not Modified">>
    [] status = 404 -> <<"Not Found">>
    [] status = 500 -> <<"Internal Server Error">>
    [] status = 503 -> <<"Service Unavailable">>
    [] OTHER -> <<>>

HttpInit ==
  /\ hDomainsOpt \in DomainOptions
  /\ hId \in HttpIds
  /\ hBypass \in {"absent", "false", "true"}
  /\ domains = <<>>
  /\ hPc = "new"
  /\ hFetched = {}
  /\ hErr = NoError
  /\ hAnswered = FALSE
  /\ hStatus = 0
  /\ hDesc = NoHttpDesc
  /\ hBodyReads = 0
  /\ hResponse = NoAnswer

HttpIdle ==
  /\ hDomainsOpt = [kind |-> "array", items |-> <<>>]
  /\ hId = <<>>
  /\ hBypass = "absent"
  /\ domains = <<>>
  /\ hPc = "new"
  /\ hFetched = {}
  /\ hErr = NoError
  /\ hAnswered = FALSE
  /\ hStatus = 0
  /\ hDesc = NoHttpDesc
  /\ hBodyReads = 0
  /\ hResponse = NoAnswer

\* createHTTPSource: new URL(d) throws on an entry that is no URL
CreateHTTPSource ==
  /\ hPc = "new"
  /\ LET ds == DomainStrings(hDomainsOpt)
         urls == [i \in 1..Len(ds) |-> ParseURL(WithScheme(ds[i]))]
     IN IF \E i \in 1..Len(urls) : ~urls[i].ok
          THEN /\ hPc' = "broken"
               /\ UNCHANGED domains
          ELSE /\ domains' = FilterNonEmpty([i \in 1..Len(urls) |-> urls[i].hostname])
               /\ hPc' = "created"
  /\ UNCHANGED <<hDomainsOpt, hId, hBypass, hFetched, hErr>>
  /\ UNCHANGED <<hAnswered, hStatus, hDesc, hBodyReads, hResponse>>
  /\ UNCHANGED NotHttp

\* the supplier is called: the hostname checks, then fetch(id)
HttpSupplierCall ==
  /\ hPc = "created"
  /\ LET url == ParseURL(hId)
     IN IF ~url.ok
          THEN /\ hErr' = [statusCode |-> 0, statusMessage |-> "TypeError"]
               /\ hPc' = "failed"
               /\ UNCHANGED hFetched
          ELSE IF url.hostname = <<>>
            THEN /\ hErr' = CreateError("Hostname is missing", 403)
                 /\ hPc' = "failed"
                 /\ UNCHANGED hFetched
          ELSE IF ForbiddenHost(hBypass, domains, url.hostname)
            THEN /\ hErr' = CreateError("Forbidden host", 403)
                 /\ hPc' = "failed"
                 /\ UNCHANGED hFetched
          ELSE /\ hFetched' = hFetched \cup {hId}
               /\ hPc' = "fetch"
               /\ UNCHANGED hErr
  /\ UNCHANGED <<hDomainsOpt, domains, hId, hBypass>>
  /\ UNCHANGED <<hAnswered, hStatus, hDesc, hBodyReads, hResponse>>
  /\ UNCHANGED NotHttp

\* the origin answers: response.ok is a status of 200..299. Of an answer
\* that is ok the supplier reads cache-control (max-age) and last-modified
\* and resolves with the descriptor; the body is read by getData only
FetchReturns ==
  /\ hPc = "fetch"
  /\ \E status \in OriginStatuses, cacheControl \in {0, 5}, lastModified \in {0, 7} :
       /\ hAnswered' = TRUE
       /\ hStatus' = status
       /\ IF status \in 200..299
            THEN /\ hPc' = "ready"
                 /\ hDesc' = [returned |-> TRUE,
                              hasMtime |-> lastModified # 0,
                              mtime |-> lastModified,
                              maxAge |-> IF cacheControl # 0 THEN cacheControl ELSE 3]
                 /\ UNCHANGED hErr
            ELSE /\ hPc' = "failed"
                 /\ hErr' = CreateError("Fetch error", FetchErrorStatus(status))
                 /\ UNCHANGED hDesc
  /\ UNCHANGED <<hDomainsOpt, domains, hId, hBypass, hFetched, hBodyReads, hResponse>>
  /\ UNCHANGED NotHttp

\* getData of the descriptor: response.arrayBuffer()
HttpGetData ==
  /\ hPc = "ready"
  /\ hDesc.returned
  /\ hBodyReads' = hBodyReads + 1
  /\ hPc' = "read"
  /\ UNCHANGED <<hDomainsOpt, domains, hId, hBypass, hFetched, hErr, hAnswered,
                 hStatus, hDesc, hResponse>>
  /\ UNCHANGED NotHttp


(***************************************************************************)
(* Handler table and the handler loop of getData                           *)
(***************************************************************************)
\* modifiers of one request
MaxMods == 3

\* the exported names of the handler table and the record each one names
\* (crop, q, b, w, h, s, pos are second names of a record)
HandlerNames ==
  { <<<<"q", "u", "a", "l", "i", "t", "y">>, "quality">>,
    <<<<"f", "i", "t">>, "fit">>,
    <<<<"p", "o", "s", "i", "t", "i", "o", "n">>, "position">>,
    <<<<"b", "a", "c", "k", "g", "r", "o", "u", "n", "d">>, "background">>,
    <<<<"e", "n", "l", "a", "r", "g", "e">>, "enlarge">>,
    <<<<"w", "i", "d", "t", "h">>, "width">>,
    <<<<"h", "e", "i", "g", "h", "t">>, "height">>,
    <<<<"r", "e", "s", "i", "z", "e">>, "resize">>,
    <<<<"t", "r", "i", "m">>, "trim">>,
    <<<<"e", "x", "t", "e", "n", "d">>, "extend">>,
    <<<<"e", "x", "t", "r", "a", "c", "t">>, "extract">>,
    <<<<"r", "o", "t", "a", "t", "e">>, "rotate">>,
    <<<<"f", "l", "i", "p">>, "flip">>,
    <<<<"f", "l", "o", "p">>, "flop">>,
    <<<<"s", "h", "a", "r", "p", "e", "n">>, "sharpen">>,
    <<<<"m", "e", "d", "i", "a", "n">>, "median">>,
    <<<<"b", "l", "u", "r">>, "blur">>,
    <<<<"f", "l", "a", "t", "t", "e", "n">>, "flatten">>,
    <<<<"g", "a", "m", "m", "a">>, "gamma">>,
    <<<<"n", "e", "g", "a", "t", "e">>, "negate">>,
    <<<<"n", "o", "r", "m", "a", "l", "i", "z", "e">>, "normalize">>,
    <<<<"t", "h", "r", "e", "s", "h", "o", "l", "d">>, "threshold">>,
    <<<<"m", "o", "d", "u", "l", "a", "t", "e">>, "modulate">>,
    <<<<"t", "i", "n", "t">>, "tint">>,
    <<<<"g", "r", "a", "y", "s", "c", "a", "l", "e">>, "grayscale">>,
    <<<<"c", "r", "o", "p">>, "extract">>,
    <<<<"q">>, "quality">>,
    <<<<"b">>, "background">>,
    <<<<"w">>, "width">>,
    <<<<"h">>, "height">>,
    <<<<"s">>, "resize">>,
    <<<<"p", "o", "s">>, "position">> }

\* one handler record: its order (0 where the record has none), whether its
\* apply only stores onto the context, and the sharp method it calls
HandlerRecord(rec) ==
  CASE rec = "" -> [record |-> "", order |-> 0, setter |-> FALSE, method |-> "none"]
    [] rec = "quality" -> [record |-> "quality", order |-> -1, setter |-> TRUE, method |-> "none"]
    [] rec = "fit" -> [record |-> "fit", order |-> -1, setter |-> TRUE, method |-> "none"]
    [] rec = "position" -> [record |-> "position", order |-> -1, setter |-> TRUE, method |-> "none"]
    [] rec = "background" -> [record |-> "background", order |-> -1, setter |-> TRUE, method |-> "none"]
    [] rec = "enlarge" -> [record |-> "enlarge", order |-> 0, setter |-> TRUE, method |-> "none"]
    [] rec = "width" -> [record |-> "width", order |-> 0, setter |-> FALSE, method |-> "resize"]
    [] rec = "height" -> [record |-> "height", order |-> 0, setter |-> FALSE, method |-> "resize"]
    [] rec = "resize" -> [record |-> "resize", order |-> 0, setter |-> FALSE, method |-> "resize"]
    [] rec = "trim" -> [record |-> "trim", order |-> 0, setter |-> FALSE, method |-> "trim"]
    [] rec = "extend" -> [record |-> "extend", order |-> 0, setter |-> FALSE, method |-> "extend"]
    [] rec = "extract" -> [record |-> "extract", order |-> 0, setter |-> FALSE, method |-> "extend"]
    [] rec = "rotate" -> [record |-> "rotate", order |-> 0, setter |-> FALSE, method |-> "rotate"]
    [] rec = "flip" -> [record |-> "flip", order |-> 0, setter |-> FALSE, method |-> "flip"]
    [] rec = "flop" -> [record |-> "flop", order |-> 0, setter |-> FALSE, method |-> "flop"]
    [] rec = "sharpen" -> [record |-> "sharpen", order |-> 0, setter |-> FALSE, method |-> "sharpen"]
    [] rec = "median" -> [record |-> "median", order |-> 0, setter |-> FALSE, method |-> "median"]
    [] rec = "blur" -> [record |-> "blur", order |-> 0, setter |-> FALSE, method |-> "blur"]
    [] rec = "flatten" -> [record |-> "flatten", order |-> 0, setter |-> FALSE, method |-> "flatten"]
    [] rec = "gamma" -> [record |-> "gamma", order |-> 0, setter |-> FALSE, method |-> "gamma"]
    [] rec = "negate" -> [record |-> "negate", order |-> 0, setter |-> FALSE, method |-> "negate"]
    [] rec = "normalize" -> [record |-> "normalize", order |-> 0, setter |-> FALSE, method |-> "normalize"]
    [] rec = "threshold" -> [record |-> "threshold", order |-> 0, setter |-> FALSE, method |-> "threshold"]
    [] rec = "modulate" -> [record |-> "modulate", order |-> 0, setter |-> FALSE, method |-> "modulate"]
    [] rec = "tint" -> [record |-> "tint", order |-> 0, setter |-> FALSE, method |-> "tint"]
    [] rec = "grayscale" -> [record |-> "grayscale", order |-> 0, setter |-> FALSE, method |-> "grayscale"]

\* getHandler(key): Handlers[key], NoHandler where the table has no such key
NoHandler == [record |-> "", order |-> 0, setter |-> FALSE, method |-> "none"]
GetHandler(key) ==
  IF \E e \in HandlerNames : e[1] = key
    THEN HandlerRecord((CHOOSE e \in HandlerNames : e[1] = key)[2])
    ELSE NoHandler

\* the characters of sort keys in the order localeCompare gives them
Collation ==
  <<"-", "0", "1", "a", "b", "c", "d", "e", "f", "g", "h", "i", "j", "k", "l",
    "m", "n", "o", "p", "q", "r", "s", "t", "u", "v", "w", "x", "y", "z">>
Rank(c) == CHOOSE i \in 1..Len(Collation) : Collation[i] = c

\* a.localeCompare(b) <= 0
RECURSIVE LocaleLeq(_, _)
LocaleLeq(a, b) ==
  IF a = <<>> THEN TRUE
  ELSE IF b = <<>> THEN FALSE
  ELSE IF a[1] = b[1] THEN LocaleLeq(Tail(a), Tail(b))
  ELSE Rank(a[1]) < Rank(b[1])

\* (handler.order || name || "").toString()
SortKey(h) == IF h.handler.order # 0 THEN <<"-", "1">> ELSE h.name

\* Array.prototype.sort with the comparator of getData: stable
RECURSIVE InsertByKey(_, _)
InsertByKey(sorted, h) ==
  IF sorted = <<>> THEN <<h>>
  ELSE IF LocaleLeq(SortKey(sorted[Len(sorted)]), SortKey(h)) THEN Append(sorted, h)
  ELSE Append(InsertByKey(SubSeq(sorted, 1, Len(sorted) - 1), h), sorted[Len(sorted)])

RECURSIVE SortHandlers(_)
SortHandlers(hs) ==
  IF hs = <<>> THEN <<>>
  ELSE InsertByKey(SortHandlers(SubSeq(hs, 1, Len(hs) - 1)), hs[Len(hs)])

\* .filter((h) => h.handler)
RECURSIVE FilterKnown(_)
FilterKnown(hs) ==
  IF hs = <<>> THEN <<>>
  ELSE (IF hs[1].handler = NoHandler THEN <<>> ELSE <<hs[1]>>) \o FilterKnown(Tail(hs))

\* the handlers of a modifier map, in the order getData applies them
ResolveHandlers(mods) ==
  SortHandlers(FilterKnown(
    [i \in 1..Len(mods) |->
       [handler |-> GetHandler(mods[i][1]), name |-> mods[i][1], args |-> mods[i][2]]]))

\* modifiers[name], NoValue where the map has no such key
NoValue == <<"undefined">>
Modifier(mods, name) ==
  IF \E i \in 1..Len(mods) : mods[i][1] = name
    THEN mods[CHOOSE i \in 1..Len(mods) : mods[i][1] = name][2]
    ELSE NoValue

\* the handler context before any handler ran
EmptyCtx == [quality |-> NoValue, fit |-> NoValue, position |-> NoValue,
             background |-> NoValue, enlarge |-> FALSE]

\* applyHandler for one handler: the context after it
ApplyToCtx(ctx, h) ==
  CASE h.handler.record = "quality" -> [ctx EXCEPT !.quality = h.args]
    [] h.handler.record = "fit" -> [ctx EXCEPT !.fit = h.args]
    [] h.handler.record = "position" -> [ctx EXCEPT !.position = h.args]
    [] h.handler.record = "background" -> [ctx EXCEPT !.background = h.args]
    [] h.handler.record = "enlarge" -> [ctx EXCEPT !.enlarge = TRUE]
    [] OTHER -> ctx

\* a resize that never lets the image grow
WithoutEnlargementAlways(ctx) == TRUE

\* !context.enlarge: the withoutEnlargement option of width and height, and
\* the condition under which resize clamps to the source's dimensions
WithoutEnlargement(ctx) == ~ctx.enlarge

\* Number(v) of the first piece of a size is a number other than 0
SizeGiven(args) == args # <<>> /\ \A i \in 1..Len(args) : args[i] \in {"1", "2"}

\* applyHandler for one handler: the calls it adds to the pipeline, each
\* with the enlarge flag it read. width and height call resize with the
\* option withoutEnlargement; resize returns without a call when its size
\* has no width, and clamps the size unless enlarge is set
ApplyToPipe(ctx, h) ==
  IF h.handler.setter THEN <<>>
  ELSE IF h.handler.record = "resize" /\ ~SizeGiven(h.args) THEN <<>>
  ELSE <<[method |-> h.handler.method, by |-> h.name, enlarge |-> ctx.enlarge,
          withoutEnlargement |-> h.handler.record \in {"width", "height"}
                                  /\ WithoutEnlargement(ctx),
          clamped |-> h.handler.record = "resize" /\ WithoutEnlargement(ctx)]>>

\* the loop `for (const h of handlers)`
RECURSIVE ApplyHandlers(_, _, _)
ApplyHandlers(hs, ctx, calls) ==
  IF hs = <<>> THEN [ctx |-> ctx, pipe |-> calls]
  ELSE ApplyHandlers(Tail(hs), ApplyToCtx(ctx, hs[1]), calls \o ApplyToPipe(ctx, hs[1]))

\* modifiers[key], the empty text when the map has no such key
ModifierValue(mods, key) ==
  IF \E i \in 1..Len(mods) : mods[i][1] = key
    THEN mods[CHOOSE i \in 1..Len(mods) : mods[i][1] = key][2]
    ELSE <<>>

\* modifiers.f || modifiers.format, the empty text when neither is given
MFormat(mods) ==
  LET f == ModifierValue(mods, <<"f">>)
  IN IF f # <<>> THEN f ELSE ModifierValue(mods, <<"f", "o", "r", "m", "a", "t">>)

\* the format data() resolves with for a source of the given type:
\* modifiers.f || modifiers.format, else meta.type; "jpg" reads "jpeg", and an
\* svg source without a format modifier gives "svg+xml"
DataFormat(mods, type) ==
  LET mFormat == MFormat(mods)
      format == IF mFormat # <<>> THEN mFormat ELSE type
  IN IF type = <<"s", "v", "g">> /\ mFormat = <<>>
       THEN <<"s", "v", "g", "+", "x", "m", "l">>
       ELSE IF format = <<"j", "p", "g">> THEN <<"j", "p", "e", "g">> ELSE format

\* meta.type as a text
TypeText(type) ==
  CASE type = "png" -> <<"p", "n", "g">>
    [] type = "svg" -> <<"s", "v", "g">>
    [] type = "jpg" -> <<"j", "p", "g">>
    [] OTHER -> <<>>

SUPPORTED_FORMATS ==
  { <<"j", "p", "e", "g">>, <<"p", "n", "g">>, <<"w", "e", "b", "p">>,
    <<"a", "v", "i", "f">>, <<"t", "i", "f", "f">>, <<"g", "i", "f">> }

\* an encoder that is progressive for every format
ProgressiveAlways(format) == TRUE

\* progressive: format === "jpeg"
Progressive(format) == format = <<"j", "p", "e", "g">>

\* the calls of sharp.toFormat after the handler loop, each with the number
\* of calls the handlers have made on the pipeline before it
ToFormat(format, ctx, calls) ==
  IF format \in SUPPORTED_FORMATS
    THEN <<[format |-> format, quality |-> ctx.quality,
            progressive |-> Progressive(format), afterCalls |-> Len(calls)]>>
    ELSE <<>>

PipeNames ==
  { <<"q">>,
    <<"q", "u", "a", "l", "i", "t", "y">>,
    <<"f", "i", "t">>,
    <<"p", "o", "s">>,
    <<"b">>,
    <<"e", "n", "l", "a", "r", "g", "e">>,
    <<"b", "l", "u", "r">>,
    <<"c", "r", "o", "p">>,
    <<"e", "x", "t", "e", "n", "d">>,
    <<"f", "l", "i", "p">>,
    <<"w">>,
    <<"w", "i", "d", "t", "h">>,
    <<"h">>,
    <<"h", "e", "i", "g", "h", "t">>,
    <<"s">>,
    <<"r", "e", "s", "i", "z", "e">>,
    <<"t", "r", "i", "m">>,
    <<"f">>,
    <<"f", "o", "r", "m", "a", "t">>,
    <<"z", "z">> }

\* the value a modifier of the model carries
ModValue(name) ==
  IF name \in { <<"e", "n", "l", "a", "r", "g", "e">>, <<"b", "l", "u", "r">>, <<"f", "l", "i", "p">> } THEN <<>>
  ELSE IF name = <<"f">> THEN <<"p", "n", "g">>
  ELSE IF name = <<"f", "o", "r", "m", "a", "t">> THEN <<"b", "m", "p">>
  ELSE <<"1">>

\* the modifier maps of the model: distinct names in any insertion order
ModifierMaps ==
  { [i \in 1..Len(ns) |-> <<ns[i], ModValue(ns[i])>>] :
      ns \in { m \in UNION { [1..k -> PipeNames] : k \in 0..MaxMods } :
                 \A i, j \in 1..Len(m) : i # j => m[i] # m[j] } }

PipeInit ==
  /\ modifiers \in ModifierMaps
  /\ metaType = "unknown"
  /\ handlerCtx = EmptyCtx
  /\ applied = <<>>
  /\ pipe = <<>>
  /\ plPc = "start"
  /\ plFormat = <<>>
  /\ toFormatCalls = <<>>

PipeIdle ==
  /\ modifiers = <<>>
  /\ metaType = "unknown"
  /\ handlerCtx = EmptyCtx
  /\ applied = <<>>
  /\ pipe = <<>>
  /\ plPc = "start"
  /\ plFormat = <<>>
  /\ toFormatCalls = <<>>

\* imageMeta(data), the format and the svg short-circuit
PipeDecode ==
  /\ plPc = "start"
  /\ \E type \in {"png", "svg", "jpg"} :
       /\ metaType' = type
       /\ plFormat' = DataFormat(modifiers, TypeText(type))
       /\ plPc' = IF type = "svg" /\ MFormat(modifiers) = <<>>
                    THEN "svg" ELSE "handlers"
  /\ UNCHANGED <<modifiers, handlerCtx, applied, pipe, toFormatCalls>>
  /\ UNCHANGED NotPipe

\* the handlers are resolved, sorted and applied
PipeApplyHandlers ==
  /\ plPc = "handlers"
  /\ LET hs == ResolveHandlers(modifiers)
         r == ApplyHandlers(hs, EmptyCtx, <<>>)
     IN /\ applied' = [i \in 1..Len(hs) |-> hs[i].name]
        /\ handlerCtx' = r.ctx
        /\ pipe' = r.pipe
        /\ toFormatCalls' = ToFormat(plFormat, r.ctx, r.pipe)
  /\ plPc' = "buffer"
  /\ UNCHANGED <<modifiers, metaType, plFormat>>
  /\ UNCHANGED NotPipe

\* sharp.toBuffer() ends, well or not
PipeToBuffer ==
  /\ plPc = "buffer"
  /\ plPc' \in {"done", "failed"}
  /\ UNCHANGED <<modifiers, metaType, handlerCtx, applied, pipe, plFormat,
                 toFormatCalls>>
  /\ UNCHANGED NotPipe

NextPipe ==
  \/ PipeDecode
  \/ PipeApplyHandlers
  \/ PipeToBuffer


(***************************************************************************)
(* HTTP facade: _handleRequest, handleRequest, sanetizeReponse             *)
(***************************************************************************)
\* path segments of one request url
MaxUrlSegs == 3

\* an escape that leaves a newline as it is
EscapeCharKeepsNewline(c) ==
  IF c = "\"" THEN <<"\\", "\"">>
  ELSE IF c = "\\" THEN <<"\\", "\\">>
  ELSE <<c>>

\* JSON.stringify of one character of a string
EscapeChar(c) ==
  IF c = "\"" THEN <<"\\", "\"">>
  ELSE IF c = "\\" THEN <<"\\", "\\">>
  ELSE IF c = "\n" THEN <<"\\", "n">>
  ELSE <<c>>

RECURSIVE EscapeAll(_)
EscapeAll(s) == IF s = <<>> THEN <<>> ELSE EscapeChar(s[1]) \o EscapeAll(Tail(s))

\* JSON.stringify(input) of a string
JsonStringify(s) == <<"\"">> \o EscapeAll(s) \o <<"\"">>

\* .replace(/^"|"$/g, ""): a quote at the start and a quote at the end go
StripOuterQuotes(s) ==
  LET a == IF s # <<>> /\ s[1] = "\"" THEN Tail(s) ELSE s
  IN IF a # <<>> /\ a[Len(a)] = "\"" THEN SubSeq(a, 1, Len(a) - 1) ELSE a

\* safeString(input)
SafeString(s) == StripOuterQuotes(JsonStringify(s))

\* decodeURIComponent over the characters of the model: "%2F" is "/", "%22"
\* is a double quote, "%0A" a newline, "%5F" is "_"; any other use of "%"
\* makes it throw
\* (ok = FALSE)
RECURSIVE DecodeURIComponent(_)
DecodeURIComponent(s) ==
  IF s = <<>> THEN [ok |-> TRUE, out |-> <<>>]
  ELSE IF s[1] # "%"
    THEN LET r == DecodeURIComponent(Tail(s))
         IN [ok |-> r.ok, out |-> <<s[1]>> \o r.out]
  ELSE IF Len(s) >= 3
          /\ SubSeq(s, 2, 3) \in { <<"2", "F">>, <<"2", "2">>, <<"0", "A">>, <<"5", "F">> }
    THEN LET r == DecodeURIComponent(Substr(s, 3))
         IN [ok |-> r.ok,
             out |-> <<IF SubSeq(s, 2, 3) = <<"2", "F">> THEN "/"
                       ELSE IF SubSeq(s, 2, 3) = <<"2", "2">> THEN "\""
                       ELSE IF SubSeq(s, 2, 3) = <<"5", "F">> THEN "_"
                       ELSE "\n">> \o r.out]
  ELSE [ok |-> FALSE, out |-> <<>>]

\* decode (ufo): the text itself where decodeURIComponent throws
Decode(s) == IF DecodeURIComponent(s).ok THEN DecodeURIComponent(s).out ELSE s

\* getEtag(data): the length of the buffer and a hash of it between double
\* quotes; the bytes of the model stand for their own hash
NumStr(n) == <<SubSeq(<<"0", "1", "2", "3", "4", "5", "6", "7", "8", "9">>, n + 1, n + 1)[1]>>
GetEtag(data) == <<"\"">> \o NumStr(Len(data)) \o <<"-">> \o data \o <<"\"">>

\* the first lines of _handleRequest: the modifier segment and the id
ParseUrl(url) ==
  LET segs == Split(Substr(url, 1), "/")
  IN [modifiersStr |-> segs[1],
      id |-> SafeString(Decode(JoinWith(Tail(segs), "/")))]

\* !modifiersStr
ModifiersMissing(modifiersStr) == modifiersStr = <<>>

\* a check of the id that lets the id "/" through
IdMissingEmptyOnly(id) == id = <<>>

\* !id || id === "/"
IdMissing(id) == id = <<>> \/ id = <<"/">>

\* the modifier map of a modifier segment: `_` is the empty map, otherwise
\* one entry per piece between "," and "&", its key and value the first two
\* pieces between "_", "=" and ":"; a repeated key keeps its place
MODIFIER_SEP == {",", "&"}
MODIFIER_VAL_SEP == {"_", "=", ":"}
ParseModifiers(modifiersStr) ==
  IF modifiersStr = <<"_">> THEN <<>>
  ELSE LET ps == SplitAny(modifiersStr, MODIFIER_SEP)
       IN FromEntries(
            [i \in 1..Len(ps) |->
               LET kv == SplitAny(ps[i], MODIFIER_VAL_SEP)
               IN <<SafeString(kv[1]),
                    SafeString(Decode(IF Len(kv) >= 2 THEN kv[2] ELSE <<>>))>>])

\* a comparison that takes a copy as old as the header's date for modified
NotModifiedSinceStrict(ims, mtime) == ims.valid /\ ims.time > mtime

\* new Date(req.headers["if-modified-since"]) >= src.mtime, false for a
\* header that is no date
NotModifiedSince(ims, mtime) == ims.valid /\ ims.time >= mtime

\* etag && req.headers["if-none-match"] === etag
NoneMatch(inm, etag) == etag # <<>> /\ inm = etag

NoHeaders == [n \in {} |-> <<>>]
SetHeader(h, n, v) == [m \in DOMAIN h \cup {n} |-> IF m = n THEN v ELSE h[m]]

\* safeStringObject(input)
SafeStringObject(h) == [n \in DOMAIN h |-> SafeString(h[n])]

EmptyBody == [kind |-> "string", value |-> <<>>]

\* escapeHtml of xss: "<" and ">" become entities
XssEscapeChar(c) ==
  IF c = "<" THEN <<"&", "l", "t", ";">>
  ELSE IF c = ">" THEN <<"&", "g", "t", ";">>
  ELSE <<c>>

\* xss(html) for a text in which no "<" opens a tag of the white list: every
\* piece of it goes through escapeHtml
RECURSIVE Xss(_)
Xss(s) == IF s = <<>> THEN <<>> ELSE XssEscapeChar(s[1]) \o Xss(Tail(s))

\* sanetizeReponse(res): a string body is sanitized, a buffer passes
SanetizeReponse(r) ==
  [statusCode |-> IF r.statusCode = 0 THEN 200 ELSE r.statusCode,
   statusMessage |-> IF r.statusMessage = <<>> THEN <<"O", "K">>
                     ELSE SafeString(r.statusMessage),
   headers |-> SafeStringObject(r.headers),
   body |-> IF r.body.kind = "string"
              THEN [kind |-> "string", value |-> Xss(SafeString(r.body.value))]
              ELSE IF r.body.kind = "buffer" THEN r.body
              ELSE EmptyBody]

\* `${statusCode}` for the status codes the suppliers and the handler use
StatusText(n) ==
  CASE n = 400 -> "400" [] n = 403 -> "403" [] n = 404 -> "404" [] OTHER -> "500"

\* the error object createError(statusMessage, statusCode, trace) makes: its
\* message is the status message followed by the trace in brackets. A fixed
\* piece of text is one element of a text, what the request brings is spelt
\* character by character
IPXError(statusMessage, statusCode, trace) ==
  [statusCode |-> statusCode,
   statusMessage |-> statusMessage,
   name |-> "Error",
   message |-> <<statusMessage>>
               \o (IF trace # <<>> THEN <<" (">> \o trace \o <<")">> ELSE <<>>)]

\* an error of the runtime or of a library: no statusCode, no statusMessage
ForeignError(name, message) ==
  [statusCode |-> 0, statusMessage |-> "", name |-> name, message |-> <<message>>]

NotThrown == [statusCode |-> 0, statusMessage |-> "", name |-> "", message |-> <<>>]

\* "" + err: Error.prototype.toString
ErrorText(err) == <<err.name, ": ">> \o err.message

\* a catch that answers every error with 500
StatusOfAlways500(err) == 500

\* parseInt(err.statusCode) || 500
StatusOf(err) == IF err.statusCode # 0 THEN err.statusCode ELSE 500

\* the response of the catch of handleRequest for an error
ErrorResponse(err) ==
  LET statusCode == StatusOf(err)
  IN SanetizeReponse(
       [statusCode |-> statusCode,
        statusMessage |-> IF err.statusMessage # "" THEN <<"IPX: ", err.statusMessage>>
                          ELSE <<"IPX Error (", StatusText(statusCode), ")">>,
        headers |-> NoHeaders,
        body |-> [kind |-> "string",
                  value |-> <<"IPX Error: ">> \o ErrorText(err)]])

FreshRes == [statusCode |-> 200, statusMessage |-> <<>>, headers |-> NoHeaders,
             body |-> EmptyBody]

NoResponse == [statusCode |-> 0, statusMessage |-> <<>>, headers |-> NoHeaders,
               body |-> EmptyBody]

NoSrc == [state |-> "none", hasMtime |-> FALSE, mtime |-> 0, hasMaxAge |-> FALSE,
          maxAge |-> 0]
NoData == [state |-> "none", data |-> <<>>, format |-> <<>>]
NoPrev == [etag |-> <<"none">>, data |-> <<"none">>]

UrlSegs ==
  { <<>>, <<"_">>, <<"a">>, <<"%", "2", "F">>, <<"f", "_", "\"", "<", "%", "0", "A">> }

\* "/" followed by up to MaxUrlSegs segments joined with "/"
Urls ==
  { <<"/">> \o JoinWith(segs, "/") :
      segs \in UNION { [1..k -> UrlSegs] : k \in 0..MaxUrlSegs } }

\* the bytes the pipeline can produce
Buffers == { <<"1">>, <<"2">> }

NoDate == [present |-> FALSE, valid |-> FALSE, time |-> 0]

\* the values of the If-Modified-Since header: absent, no date, or a date
IfModifiedSinceValues ==
  { NoDate, [present |-> TRUE, valid |-> FALSE, time |-> 0] }
  \cup { [present |-> TRUE, valid |-> TRUE, time |-> t] : t \in {4, 5, 6} }

NoHeaderValue == <<"undefined">>

\* the request headers: none at all, or If-Modified-Since and If-None-Match,
\* the latter absent, the entity tag of a buffer, or the ETag header of the
\* last 200 response
RequestHeaders ==
  { [defined |-> FALSE, ims |-> NoDate, inm |-> NoHeaderValue] }
  \cup { [defined |-> TRUE, ims |-> i, inm |-> NoHeaderValue] : i \in IfModifiedSinceValues }
  \cup { [defined |-> TRUE, ims |-> NoDate, inm |-> GetEtag(b)] : b \in Buffers }
  \cup (IF prevOk = NoPrev THEN {}
        ELSE { [defined |-> TRUE, ims |-> NoDate, inm |-> prevOk.etag] })

\* what a supplier can resolve with
SourceDescriptors ==
  { [state |-> "ok", hasMtime |-> m, mtime |-> IF m THEN 5 ELSE 0,
     hasMaxAge |-> a, maxAge |-> IF a THEN 3 ELSE 0] : m, a \in BOOLEAN }

\* what img.src() can reject with for an id: an error of a supplier (the
\* filesystem supplier's root is "/d") or of new URL(id)
SourceErrors(id) ==
  { IPXError("Forbidden path", 403, id),
    IPXError("File not found", 404, Resolve(Join(<<"/", "d">>, id))),
    IPXError("Fetch error", 404, <<"Not Found">>),
    ForeignError("TypeError", "Invalid URL") }

\* what img.data() can reject with: an error of readFile, of the origin's
\* body or of the codec
DataErrors ==
  { ForeignError("Error", "Input buffer contains unsupported image format") }

\* the error of reading a header of a request that has no headers
HeadersUndefined(name) ==
  [statusCode |-> 0, statusMessage |-> "", name |-> "TypeError",
   message |-> <<"Cannot read properties of undefined (reading '", name, "')">>]

ReqInit ==
  /\ req = [url |-> <<>>, headers |-> [defined |-> FALSE, ims |-> NoDate, inm |-> NoHeaderValue]]
  /\ rqPc = "idle"
  /\ rqId = <<>>
  /\ rqModifiers = <<>>
  /\ res = FreshRes
  /\ response = NoResponse
  /\ rqSrc = NoSrc
  /\ rqData = NoData
  /\ engineCalls = 0
  /\ srcCalls = 0
  /\ dataCalls = 0
  /\ prevOk = NoPrev
  /\ rqErr = NotThrown

ReqIdle == ReqInit

\* handleRequest's catch: the request ends with the error response
Caught(err) ==
  /\ rqErr' = err
  /\ response' = ErrorResponse(err)
  /\ rqPc' = "responded"

\* handleRequest(req, ipx) is called: the url is decoded and validated, the
\* modifier map built, ipx() and img.src() called
HandleRequest ==
  /\ rqPc = "idle"
  /\ \E url \in Urls \cup {<<>>}, headers \in RequestHeaders, missing \in BOOLEAN :
       LET parsed == ParseUrl(url)
       IN /\ req' = [url |-> url, headers |-> headers]
          /\ res' = FreshRes
          /\ rqSrc' = NoSrc
          /\ rqData' = NoData
          /\ rqId' = parsed.id
          /\ IF ModifiersMissing(parsed.modifiersStr)
               THEN /\ Caught(IPXError("Modifiers are missing", 400, url))
                    /\ rqModifiers' = <<>>
                    /\ engineCalls' = 0 /\ srcCalls' = 0
                    /\ missing = FALSE
             ELSE IF IdMissing(parsed.id)
               THEN /\ Caught(IPXError("Resource id is missing", 400, url))
                    /\ rqModifiers' = <<>>
                    /\ engineCalls' = 0 /\ srcCalls' = 0
                    /\ missing = FALSE
             ELSE /\ rqModifiers' = ParseModifiers(parsed.modifiersStr)
                  /\ engineCalls' = 1
                  /\ srcCalls' = 1
                  /\ IF missing
                       THEN Caught(IPXError("Unknown source", 400,
                              IF HasProtocol(parsed.id) THEN <<"http">>
                              ELSE <<"filesystem">>))
                       ELSE /\ rqPc' = "awaitSrc"
                            /\ response' = NoResponse
                            /\ rqErr' = NotThrown
  /\ dataCalls' = 0
  /\ UNCHANGED prevOk
  /\ UNCHANGED NotReq

\* a request that goes on to img.data() when img.src() has rejected
DataCallsWhenSrcRejectsGoesOn(n) == n + 1

\* the calls of img.data() once `await img.src()` has thrown: the rest of
\* _handleRequest is skipped
DataCallsWhenSrcRejects(n) == n

\* img.src() rejects
SrcRejects ==
  /\ rqPc = "awaitSrc"
  /\ \E err \in SourceErrors(rqId) :
       /\ Caught(err)
       /\ rqSrc' = [NoSrc EXCEPT !.state = "error"]
  /\ dataCalls' = DataCallsWhenSrcRejects(dataCalls)
  /\ UNCHANGED <<req, rqId, rqModifiers, res, rqData, engineCalls, srcCalls, prevOk>>
  /\ UNCHANGED NotReq

\* img.src() resolves: the conditional headers, then img.data() is called
SrcResolves ==
  /\ rqPc = "awaitSrc"
  /\ \E src \in SourceDescriptors :
       /\ rqSrc' = src
       /\ IF src.hasMtime /\ ~req.headers.defined
            THEN \* req.headers["if-modified-since"] of undefined
                 /\ Caught(HeadersUndefined("if-modified-since"))
                 /\ UNCHANGED <<res, dataCalls>>
          ELSE IF /\ src.hasMtime
                  /\ req.headers.ims.present
                  /\ NotModifiedSince(req.headers.ims, src.mtime)
            THEN /\ res' = [res EXCEPT !.statusCode = 304]
                 /\ response' = res'
                 /\ rqPc' = "responded"
                 /\ UNCHANGED <<dataCalls, rqErr>>
          ELSE LET h1 == IF src.hasMtime
                           THEN SetHeader(res.headers, "Last-Modified", NumStr(src.mtime))
                           ELSE res.headers
                   h2 == IF src.hasMaxAge
                           THEN SetHeader(h1, "Cache-Control",
                                  <<"m", "a", "x", "-", "a", "g", "e", "=">> \o NumStr(src.maxAge)
                                  \o <<",", " ", "p", "u", "b", "l", "i", "c", ",", " ", "s", "-", "m", "a", "x", "a", "g", "e", "=">> \o NumStr(src.maxAge))
                           ELSE h1
               IN /\ res' = [res EXCEPT !.headers = h2]
                  /\ dataCalls' = dataCalls + 1
                  /\ rqPc' = "awaitData"
                  /\ UNCHANGED <<response, rqErr>>
  /\ UNCHANGED <<req, rqId, rqModifiers, rqData, engineCalls, srcCalls, prevOk>>
  /\ UNCHANGED NotReq

\* img.data() rejects
DataRejects ==
  /\ rqPc = "awaitData"
  /\ \E err \in DataErrors :
       /\ Caught(err)
       /\ rqData' = [NoData EXCEPT !.state = "error"]
  /\ UNCHANGED <<req, rqId, rqModifiers, res, rqSrc, engineCalls, srcCalls,
                 dataCalls, prevOk>>
  /\ UNCHANGED NotReq

\* img.data() resolves: the entity tag, then 304 or the shaped 200 response
DataResolves ==
  /\ rqPc = "awaitData"
  /\ \E data \in Buffers, type \in { <<"p", "n", "g">>, <<"s", "v", "g">> } :
       LET format == DataFormat(rqModifiers, type)
           etag == GetEtag(data)
           h1 == SetHeader(res.headers, "ETag", etag)
           h2 == IF format # <<>>
                   THEN SetHeader(h1, "Content-Type", <<"i", "m", "a", "g", "e", "/">> \o format)
                   ELSE h1
           h3 == SetHeader(h2, "Content-Security-Policy", <<"d", "e", "f", "a", "u", "l", "t", "-", "s", "r", "c", " ", "'", "n", "o", "n", "e", "'">>)
       IN /\ rqData' = [state |-> "ok", data |-> data, format |-> format]
          /\ IF ~req.headers.defined
               THEN \* req.headers["if-none-match"] of undefined
                    /\ Caught(HeadersUndefined("if-none-match"))
                    /\ res' = [res EXCEPT !.headers = h1]
                    /\ UNCHANGED prevOk
             ELSE IF NoneMatch(req.headers.inm, etag)
               THEN /\ res' = [res EXCEPT !.headers = h1, !.statusCode = 304]
                    /\ response' = res'
                    /\ rqPc' = "responded"
                    /\ UNCHANGED <<prevOk, rqErr>>
             ELSE /\ res' = [res EXCEPT !.headers = h3,
                                        !.body = [kind |-> "buffer", value |-> data]]
                  /\ response' = SanetizeReponse(res')
                  /\ rqPc' = "responded"
                  /\ UNCHANGED <<prevOk, rqErr>>
  /\ UNCHANGED <<req, rqId, rqModifiers, rqSrc, engineCalls, srcCalls, dataCalls>>
  /\ UNCHANGED NotReq

\* the middleware writes the response out and is ready for the next request;
\* the client keeps the ETag header of a 200 response
MiddlewareEnd ==
  /\ rqPc = "responded"
  /\ rqPc' = "idle"
  /\ req' = [url |-> <<>>, headers |-> [defined |-> FALSE, ims |-> NoDate, inm |-> NoHeaderValue]]
  /\ rqId' = <<>>
  /\ rqModifiers' = <<>>
  /\ res' = FreshRes
  /\ response' = NoResponse
  /\ rqSrc' = NoSrc
  /\ rqData' = NoData
  /\ engineCalls' = 0
  /\ srcCalls' = 0
  /\ dataCalls' = 0
  /\ rqErr' = NotThrown
  /\ prevOk' = IF response.statusCode = 200
                THEN [etag |-> response.headers["ETag"], data |-> rqData.data]
                ELSE prevOk
  /\ UNCHANGED NotReq

NextReq ==
  \/ HandleRequest
  \/ MiddlewareEnd
  \/ SrcRejects
  \/ SrcResolves
  \/ DataRejects
  \/ DataResolves


\* the error object the HTTP supplier threw, with its trace
HttpThrown ==
  IF hErr.statusMessage = "TypeError" THEN ForeignError("TypeError", "Invalid URL")
  ELSE IPXError(hErr.statusMessage, hErr.statusCode,
                IF hErr.statusMessage = "Fetch error" THEN FetchStatusText(hStatus)
                ELSE IF hErr.statusMessage = "Forbidden host"
                  THEN ParseURL(hId).hostname
                  ELSE hId)

\* img.src() has rejected in _handleRequest: the catch of handleRequest
\* answers with the error's status
HttpRequestFails ==
  /\ hPc = "failed"
  /\ hResponse' = ErrorResponse(HttpThrown)
  /\ hPc' = "answered"
  /\ UNCHANGED <<hDomainsOpt, domains, hId, hBypass, hFetched, hErr, hAnswered,
                 hStatus, hDesc, hBodyReads>>
  /\ UNCHANGED NotHttp

NextHttp ==
  \/ CreateHTTPSource
  \/ HttpSupplierCall
  \/ FetchReturns
  \/ HttpGetData
  \/ HttpRequestFails

(***************************************************************************)
(* Response shaper on its own: sanetizeReponse over arbitrary records      *)
(***************************************************************************)
\* characters of one text handed to the shaper
MaxText == 3

ShapeChars == { "x", "\"", "\\", "\n", "<" }

ShapeTexts == UNION { [1..k -> ShapeChars] : k \in 0..MaxText }

\* the records handed to the shaper: a status message, a header value and a
\* body that is a string, a buffer or undefined
ShapeInputs ==
  { [statusCode |-> c,
     statusMessage |-> t,
     headers |-> SetHeader(NoHeaders, "X-Header", t),
     body |-> [kind |-> k, value |-> IF k = "undefined" THEN <<>> ELSE t]] :
      c \in {0, 304}, t \in ShapeTexts, k \in {"string", "buffer", "undefined"} }

ShapeInit ==
  /\ shIn \in ShapeInputs
  /\ shOut = NoResponse
  /\ shPc = "start"

ShapeIdle ==
  /\ shIn = NoResponse
  /\ shOut = NoResponse
  /\ shPc = "start"

\* sanetizeReponse(res)
Shape ==
  /\ shPc = "start"
  /\ shOut' = SanetizeReponse(shIn)
  /\ shPc' = "done"
  /\ UNCHANGED shIn
  /\ UNCHANGED NotShape

NextShape ==
  \/ Shape


(***************************************************************************)
(* External cache: the cache steps of ipx.getData                          *)
(***************************************************************************)
\* data() invocations of one run
MaxRequests == 2
\* entries of one modifier map
MaxCacheMods == 1

\* JSON.stringify of an object whose values are strings, its entries in
\* insertion order
RECURSIVE JsonMembers(_)
JsonMembers(es) ==
  IF es = <<>> THEN <<>>
  ELSE JsonStringify(es[1][1]) \o <<":">> \o JsonStringify(es[1][2])
       \o (IF Len(es) > 1 THEN <<",">> \o JsonMembers(Tail(es)) ELSE <<>>)
JsonObject(es) == <<"{">> \o JsonMembers(es) \o <<"}">>

\* { id, ...modifiers }: the property id, then the modifiers; a modifier of
\* the same name takes the property over
IdWithModifiers(id, mods) == FromEntries(<<<<<<"i", "d">>, id>>>> \o mods)

\* a key made of the id alone
CacheKeyIdOnly(id, mods) == JsonObject(<<<<<<"i", "d">>, id>>>>)

\* cacheKey = JSON.stringify({ id, ...modifiers })
CacheKey(id, mods) == JsonObject(IdWithModifiers(id, mods))

\* a codec step whose failure is swallowed
AfterToBufferSwallows(ok) == "set"

\* what follows sharp.toBuffer(): its rejection leaves getData at once
AfterToBuffer(ok) == IF ok THEN "set" ELSE "failed"

CacheIds == { <<"/", "a">>, <<"/", "b">> }

CacheModEntries ==
  { <<<<"i", "d">>, <<"/", "b">>>>, <<<<"w">>, <<"1">>>>, <<<<"w">>, <<"2">>>>,
    <<<<"f">>, <<"p", "n", "g">>>> }

\* modifier maps: no name twice
CacheModifierMaps ==
  { m \in UNION { [1..k -> CacheModEntries] : k \in 0..MaxCacheMods } :
      \A i, j \in 1..Len(m) : i # j => m[i][1] # m[j][1] }

\* a test that takes any modifier for a requested format
HasAnyModifier(mods) == mods # <<>>

\* modifiers.f || modifiers.format
HasFormatModifier(mods) ==
  \E i \in 1..Len(mods) :
    mods[i][1] \in { <<"f">>, <<"f", "o", "r", "m", "a", "t">> } /\ mods[i][2] # <<>>

EmptyCache == [k \in {} |-> 0]
NoDescriptor == [id |-> <<>>, modifiers |-> <<>>, type |-> ""]
NoElement == [src |-> <<>>, by |-> <<>>, verbatim |-> FALSE, format |-> ""]
AllStages == {"src", "read", "decode", "codec"}

\* what a cache.get that has returned leads to: the entry is returned, or
\* the image is produced
OnCacheGetAlwaysProduce(hit) == "src"

\* if (match) return element
OnCacheGet(hit) == IF hit THEN "done" ELSE "src"

\* a store that holds an element for the request of "/a" without modifiers
\* when the process starts
StoredBefore ==
  [k \in {CacheKey(<<"/", "a">>, <<>>)} |->
     [src |-> <<"/", "a">>, by |-> <<>>, verbatim |-> FALSE, format |-> "png"]]

CacheInit ==
  /\ cEnabled \in BOOLEAN
  /\ cache \in {EmptyCache, StoredBefore}
  /\ cReads = 0
  /\ cReq = NoDescriptor
  /\ cPc = "idle"
  /\ cMatch = FALSE
  /\ cStages = {}
  /\ cResult = NoElement
  /\ cWrites = 0
  /\ cBefore = cache
  /\ cCount = 0

CacheIdle ==
  /\ cEnabled = FALSE
  /\ cReads = 0
  /\ cache = EmptyCache
  /\ cReq = NoDescriptor
  /\ cPc = "idle"
  /\ cMatch = FALSE
  /\ cStages = {}
  /\ cResult = NoElement
  /\ cWrites = 0
  /\ cBefore = EmptyCache
  /\ cCount = 0

\* data() of a new descriptor is called: the key, then cache.get or getSrc
CacheDataCall ==
  /\ cPc \in {"idle", "done", "failed"}
  /\ cCount < MaxRequests
  /\ \E id \in CacheIds, mods \in CacheModifierMaps, type \in {"png", "svg"} :
       cReq' = [id |-> id, modifiers |-> mods, type |-> type]
  /\ cPc' = IF cEnabled THEN "get" ELSE "src"
  /\ cMatch' = FALSE
  /\ cStages' = {}
  /\ cResult' = NoElement
  /\ cWrites' = 0
  /\ cReads' = IF cEnabled THEN 1 ELSE 0
  /\ cBefore' = cache
  /\ cCount' = cCount + 1
  /\ UNCHANGED <<cEnabled, cache>>
  /\ UNCHANGED NotCache

\* cache.get(cacheKey) settles: an entry is returned as it is
CacheGetSettles ==
  /\ cPc = "get"
  /\ \E ok \in BOOLEAN :
       LET key == CacheKey(cReq.id, cReq.modifiers)
       IN IF ~ok THEN cPc' = "failed" /\ UNCHANGED <<cMatch, cResult>>
          ELSE IF OnCacheGet(key \in DOMAIN cache) = "done"
            THEN cPc' = "done" /\ cMatch' = TRUE /\ cResult' = cache[key]
          ELSE cPc' = "src" /\ UNCHANGED <<cMatch, cResult>>
  /\ UNCHANGED <<cEnabled, cache, cReq, cStages, cWrites, cReads, cBefore, cCount>>
  /\ UNCHANGED NotCache

\* getSrc() settles, src.getData() is called
CacheSrcSettles ==
  /\ cPc = "src"
  /\ \E ok \in BOOLEAN :
       IF ok THEN cPc' = "read" /\ cStages' = cStages \cup {"src"}
       ELSE cPc' = "failed" /\ UNCHANGED cStages
  /\ UNCHANGED <<cEnabled, cache, cReq, cMatch, cResult, cWrites, cReads, cBefore,
                 cCount>>
  /\ UNCHANGED NotCache

\* src.getData() settles: imageMeta, the svg case, then the codec
CacheReadSettles ==
  /\ cPc = "read"
  /\ \E read \in BOOLEAN, decoded \in BOOLEAN :
       IF ~read THEN cPc' = "failed" /\ UNCHANGED <<cStages, cResult>>
       ELSE IF ~decoded
         THEN cPc' = "failed" /\ cStages' = cStages \cup {"read"} /\ UNCHANGED cResult
       ELSE /\ cStages' = cStages \cup {"read", "decode"}
            /\ IF cReq.type = "svg" /\ ~HasFormatModifier(cReq.modifiers)
                 THEN /\ cPc' = "done"
                      /\ cResult' = [src |-> cReq.id, by |-> <<>>, verbatim |-> TRUE,
                                     format |-> "svg+xml"]
                 ELSE cPc' = "codec" /\ UNCHANGED cResult
  /\ UNCHANGED <<cEnabled, cache, cReq, cMatch, cWrites, cReads, cBefore, cCount>>
  /\ UNCHANGED NotCache

\* the handlers are applied and sharp.toBuffer() settles; with the cache on,
\* cache.set(cacheKey, cacheEntry) is called
CacheCodecSettles ==
  /\ cPc = "codec"
  /\ \E ok \in BOOLEAN :
       LET result == [src |-> cReq.id, by |-> cReq.modifiers, verbatim |-> FALSE,
                      format |-> "png"]
           key == CacheKey(cReq.id, cReq.modifiers)
       IN IF AfterToBuffer(ok) = "failed"
            THEN cPc' = "failed" /\ UNCHANGED <<cStages, cResult, cache, cWrites>>
          ELSE /\ cStages' = IF ok THEN cStages \cup {"codec"} ELSE cStages
               /\ cResult' = result
               /\ IF cEnabled /\ ~cMatch
                    THEN /\ cache' = [k \in DOMAIN cache \cup {key} |->
                                        IF k = key THEN result ELSE cache[k]]
                         /\ cWrites' = cWrites + 1
                         /\ cPc' = "set"
                    ELSE cPc' = "done" /\ UNCHANGED <<cache, cWrites>>
  /\ UNCHANGED <<cEnabled, cReq, cMatch, cReads, cBefore, cCount>>
  /\ UNCHANGED NotCache

\* cache.set settles
CacheSetSettles ==
  /\ cPc = "set"
  /\ \E ok \in BOOLEAN : cPc' = IF ok THEN "done" ELSE "failed"
  /\ UNCHANGED <<cEnabled, cache, cReq, cMatch, cStages, cResult, cWrites, cReads,
                 cBefore, cCount>>
  /\ UNCHANGED NotCache

NextCache ==
  \/ CacheDataCall
  \/ CacheGetSettles
  \/ CacheSrcSettles
  \/ CacheReadSettles
  \/ CacheCodecSettles
  \/ CacheSetSettles

(***************************************************************************)
(* The resize handler's size: clampDimensionsPreservingAspectRatio         *)
(***************************************************************************)
\* the largest width or height of a size and of a source
MaxDim == 3

\* Math.round(n / d) for positive d: the nearest integer, a half goes up
Round(n, d) == (2 * n + d) \div (2 * d)

\* clampDimensionsPreservingAspectRatio(sourceDimensions, desiredDimensions):
\* the quotient desired.width / desired.height is kept as a fraction
ClampDimensionsPreservingAspectRatio(src, desired) ==
  LET w1 == IF desired.width > src.width THEN src.width ELSE desired.width
      h1 == IF desired.width > src.width
              THEN Round(src.width * desired.height, desired.width)
              ELSE desired.height
  IN IF h1 > src.height
       THEN [width |-> Round(src.height * desired.width, desired.height),
             height |-> src.height]
       ELSE [width |-> w1, height |-> h1]

\* the size the resize handler passes to pipe.resize for a size of width w
\* and height h (0 where the size has no height): the height defaults to the
\* width, and the size is clamped unless enlarge is set
ResizeDimensions(src, w, h, enlarge) ==
  LET desired == [width |-> w, height |-> IF h = 0 THEN w ELSE h]
  IN IF enlarge THEN desired ELSE ClampDimensionsPreservingAspectRatio(src, desired)

NoSize == [width |-> 0, height |-> 0]

ClampInit ==
  /\ clSrc \in [width : 1..MaxDim, height : 1..MaxDim]
  /\ clW \in 1..MaxDim
  /\ clH \in 0..MaxDim
  /\ clEnlarge \in BOOLEAN
  /\ clOut = NoSize
  /\ clPc = "start"

ClampIdle ==
  /\ clSrc = NoSize
  /\ clW = 0
  /\ clH = 0
  /\ clEnlarge = FALSE
  /\ clOut = NoSize
  /\ clPc = "start"

\* resize.apply(context, pipe, size): pipe.resize(width, height, ...)
ResizeApply ==
  /\ clPc = "start"
  /\ clOut' = ResizeDimensions(clSrc, clW, clH, clEnlarge)
  /\ clPc' = "resized"
  /\ UNCHANGED <<clSrc, clW, clH, clEnlarge>>
  /\ UNCHANGED NotClamp

NextClamp ==
  \/ ResizeApply


(***************************************************************************)
(* Handler arguments: from an entry of the modifier segment to the codec   *)
(***************************************************************************)
\* the largest argument written in an entry
MaxArg == 2

\* the number of parameters the apply function of a handler declares
DeclaredArgs(name) ==
  CASE name = <<"e", "x", "t", "e", "n", "d">> -> 4
    [] name = <<"s", "h", "a", "r", "p", "e", "n">> -> 3
    [] name = <<"g", "a", "m", "m", "a">> -> 2

\* the length of handler.args: one VArg mapper for each
HandlerArgs(name) ==
  CASE name = <<"e", "x", "t", "e", "n", "d">> -> 4
    [] name = <<"s", "h", "a", "r", "p", "e", "n">> -> 3
    [] name = <<"g", "a", "m", "m", "a">> -> 3

\* parseArgs(args, mappers): the pieces of args between "_", one for each
\* mapper, undefined where the pieces run out. VArg (destr) turns the text
\* of a number into the number; the model keeps the text
ParseArgs(args, n) ==
  LET vargs == Split(args, "_")
  IN [i \in 1..n |-> IF i <= Len(vargs) THEN vargs[i] ELSE NoValue]

\* applyHandler(ctx, pipe, handler, argsStr): the call made on the codec,
\* with the arguments in the order the apply function names them (extend:
\* top, right, bottom, left; sharpen: sigma, flat, jagged; gamma: in, out)
ApplyHandlerCall(name, argsStr) ==
  [method |-> GetHandler(name).method,
   args |-> SubSeq(ParseArgs(argsStr, HandlerArgs(name)), 1, DeclaredArgs(name))]

ArgNames ==
  { <<"e", "x", "t", "e", "n", "d">>, <<"s", "h", "a", "r", "p", "e", "n">>,
    <<"g", "a", "m", "m", "a">> }

\* what stands between the pieces of an entry: a separator of the URL
\* grammar, or an encoded underscore
ArgSeparators == { <<"_">>, <<":">>, <<"%", "5", "F">> }

\* the entry name, first, arg, inner, arg, inner, arg ...
RECURSIVE JoinArgs(_, _)
JoinArgs(args, inner) ==
  IF Len(args) = 1 THEN args[1]
  ELSE args[1] \o inner \o JoinArgs(Tail(args), inner)
WrittenEntry(name, first, inner, args) == name \o first \o JoinArgs(args, inner)

NoCall == [method |-> "none", args |-> <<>>]

ArgsInit ==
  /\ aName \in ArgNames
  /\ aFirst \in { <<"_">>, <<"=">>, <<":">> }
  /\ aInner \in ArgSeparators
  /\ aArgs \in [1..DeclaredArgs(aName) -> { NumStr(i) : i \in 1..MaxArg }]
  /\ aModifiers = <<>>
  /\ aCall = NoCall
  /\ aPc = "url"

ArgsIdle ==
  /\ aName = <<>>
  /\ aFirst = <<>>
  /\ aInner = <<>>
  /\ aArgs = <<>>
  /\ aModifiers = <<>>
  /\ aCall = NoCall
  /\ aPc = "url"

\* _handleRequest reads the modifier segment into the modifier map
ArgsDecodeModifiers ==
  /\ aPc = "url"
  /\ aModifiers' = ParseModifiers(WrittenEntry(aName, aFirst, aInner, aArgs))
  /\ aPc' = "decoded"
  /\ UNCHANGED <<aName, aFirst, aInner, aArgs, aCall>>
  /\ UNCHANGED NotArgs

\* the handler loop of getData applies the entry's handler
ArgsApplyHandler ==
  /\ aPc = "decoded"
  /\ aCall' = ApplyHandlerCall(aName, Modifier(aModifiers, aName))
  /\ aPc' = "applied"
  /\ UNCHANGED <<aName, aFirst, aInner, aArgs, aModifiers>>
  /\ UNCHANGED NotArgs

NextArgs ==
  \/ ArgsDecodeModifiers
  \/ ArgsApplyHandler


(***************************************************************************)
(* The in-memory cache of image descriptors by url: middleware.ts          *)
(***************************************************************************)
\* seconds on the clock, the largest max age
MaxTime == 2
MaxExpiry == 1

\* each client sends one request
Clients == {"c1", "c2"}
UrlKeys == {"/_/a", "/_/b"}

\* an expiry test that keeps every entry
IsExpiredNever(entry, now) == FALSE

\* isExpired(key, cache): timestamp.getTime() < now - expiry * 1000, in seconds
IsExpired(entry, now) == entry.timestamp < now - entry.expiry

\* clearExpiredCache(): the map without its expired entries
ClearExpiredCache(c, now) ==
  [u \in { k \in DOMAIN c : ~IsExpired(c[k], now) } |-> c[u]]

\* src.maxAge || DEFAULT_CACHE_MAX_AGE
EntryExpiry(maxAge, default) == IF maxAge # 0 THEN maxAge ELSE default

NoUrlEntries == [u \in {} |-> 0]
NoUrlRequest ==
  [pc |-> "idle", url |-> "", img |-> 0, hit |-> FALSE, hitFailed |-> FALSE,
   hitAge |-> 0, hitExpiry |-> 0, outcome |-> "none"]
\* the request once its response is known
Answered(outcome) == [NoUrlRequest EXCEPT !.pc = "done", !.outcome = outcome]
NewDescriptor == [src |-> "none", maxAge |-> 0, data |-> "none"]

UrlInit ==
  /\ uEnabled \in BOOLEAN
  /\ uDefault \in 1..MaxExpiry
  /\ uCache = NoUrlEntries
  /\ uNow = 0
  /\ uImgs = <<>>
  /\ uReq = [c \in Clients |-> NoUrlRequest]

UrlIdle ==
  /\ uEnabled = FALSE
  /\ uDefault = 0
  /\ uCache = NoUrlEntries
  /\ uNow = 0
  /\ uImgs = <<>>
  /\ uReq = [c \in Clients |-> NoUrlRequest]

\* _handleRequest from clearExpiredCache() to its first await: the expired
\* entries are cleared, the descriptor is the cached one or a new one, and
\* img.src() is called
UrlRequest(c) ==
  /\ uReq[c].pc = "idle"
  /\ \E url \in UrlKeys :
       LET cleared == ClearExpiredCache(uCache, uNow)
           hit == url \in DOMAIN cleared
           img == IF hit THEN cleared[url].element ELSE Len(uImgs) + 1
       IN /\ uCache' = cleared
          /\ uImgs' = IF hit THEN uImgs ELSE Append(uImgs, NewDescriptor)
          /\ uReq' = [uReq EXCEPT ![c] =
               [pc |-> "awaitSrc", url |-> url, img |-> img, hit |-> hit,
                hitFailed |-> hit /\ uImgs[img].data = "failed",
                hitAge |-> IF hit THEN uNow - cleared[url].timestamp ELSE 0,
                hitExpiry |-> IF hit THEN cleared[url].expiry ELSE 0,
                outcome |-> "none"]]
  /\ UNCHANGED <<uEnabled, uDefault, uNow>>
  /\ UNCHANGED NotUrl

\* img.src() settles, with the memoized result if the descriptor has one:
\* the entry is stored if the cache is on and has none for the url, then 304
\* is answered or img.data() is called
UrlSrcSettles(c) ==
  /\ uReq[c].pc = "awaitSrc"
  /\ LET d == uReq[c].img
     IN \E ok \in BOOLEAN, maxAge \in 0..1, notModified \in BOOLEAN :
          LET settled == IF uImgs[d].src # "none" THEN uImgs[d]
                         ELSE [uImgs[d] EXCEPT !.src = IF ok THEN "ok" ELSE "failed",
                                               !.maxAge = IF ok THEN maxAge ELSE 0]
          IN /\ uImgs' = [uImgs EXCEPT ![d] = settled]
             /\ IF settled.src = "failed"
                  THEN /\ uReq' = [uReq EXCEPT ![c] = Answered("error")]
                       /\ UNCHANGED uCache
                  ELSE /\ uCache' =
                            IF uEnabled /\ uReq[c].url \notin DOMAIN uCache
                              THEN [u \in DOMAIN uCache \cup {uReq[c].url} |->
                                      IF u = uReq[c].url
                                        THEN [element |-> d, timestamp |-> uNow,
                                              expiry |-> EntryExpiry(settled.maxAge, uDefault)]
                                        ELSE uCache[u]]
                              ELSE uCache
                       /\ uReq' = IF notModified
                                    THEN [uReq EXCEPT ![c] = Answered("304")]
                                    ELSE [uReq EXCEPT ![c].pc = "awaitData"]
  /\ UNCHANGED <<uEnabled, uDefault, uNow>>
  /\ UNCHANGED NotUrl

\* img.data() settles, with the memoized result if the descriptor has one
UrlDataSettles(c) ==
  /\ uReq[c].pc = "awaitData"
  /\ LET d == uReq[c].img
     IN \E ok \in BOOLEAN :
          LET result == IF uImgs[d].data # "none" THEN uImgs[d].data
                        ELSE IF ok THEN "ok" ELSE "failed"
          IN /\ uImgs' = [uImgs EXCEPT ![d].data = result]
             /\ uReq' = [uReq EXCEPT ![c] =
                           Answered(IF result = "ok" THEN "200" ELSE "error")]
  /\ UNCHANGED <<uEnabled, uDefault, uCache, uNow>>
  /\ UNCHANGED NotUrl

\* a second goes by
UrlTick ==
  /\ uNow < MaxTime
  /\ uNow' = uNow + 1
  /\ UNCHANGED <<uEnabled, uDefault, uCache, uImgs, uReq>>
  /\ UNCHANGED NotUrl

UrlRequests == \E c \in Clients : UrlRequest(c)
UrlSrcs == \E c \in Clients : UrlSrcSettles(c)
UrlDatas == \E c \in Clients : UrlDataSettles(c)

NextUrl ==
  \/ UrlRequests
  \/ UrlSrcs
  \/ UrlDatas
  \/ UrlTick


(***************************************************************************)
(* Specifications                                                          *)
(***************************************************************************)
InitMemo == MemoInit /\ NormIdle /\ FsIdle /\ HttpIdle /\ PipeIdle /\ ReqIdle /\ ShapeIdle /\ CacheIdle /\ ClampIdle /\ ArgsIdle /\ UrlIdle
SpecMemo == InitMemo /\ [][NextMemo]_vars

InitNorm == NormInit /\ MemoIdle /\ FsIdle /\ HttpIdle /\ PipeIdle /\ ReqIdle /\ ShapeIdle /\ CacheIdle /\ ClampIdle /\ ArgsIdle /\ UrlIdle
SpecNorm == InitNorm /\ [][NextNorm]_vars

InitFs == FsInit /\ MemoIdle /\ NormIdle /\ HttpIdle /\ PipeIdle /\ ReqIdle /\ ShapeIdle /\ CacheIdle /\ ClampIdle /\ ArgsIdle /\ UrlIdle
SpecFs == InitFs /\ [][NextFs]_vars

InitHttp == HttpInit /\ MemoIdle /\ NormIdle /\ FsIdle /\ PipeIdle /\ ReqIdle /\ ShapeIdle /\ CacheIdle /\ ClampIdle /\ ArgsIdle /\ UrlIdle
SpecHttp == InitHttp /\ [][NextHttp]_vars

InitPipe == PipeInit /\ MemoIdle /\ NormIdle /\ FsIdle /\ HttpIdle /\ ReqIdle /\ ShapeIdle /\ CacheIdle /\ ClampIdle /\ ArgsIdle /\ UrlIdle
SpecPipe == InitPipe /\ [][NextPipe]_vars

InitReq == ReqInit /\ MemoIdle /\ NormIdle /\ FsIdle /\ HttpIdle /\ PipeIdle /\ ShapeIdle /\ CacheIdle /\ ClampIdle /\ ArgsIdle /\ UrlIdle
SpecReq == InitReq /\ [][NextReq]_vars

InitShape == ShapeInit /\ MemoIdle /\ NormIdle /\ FsIdle /\ HttpIdle /\ PipeIdle /\ ReqIdle /\ CacheIdle /\ ClampIdle /\ ArgsIdle /\ UrlIdle
SpecShape == InitShape /\ [][NextShape]_vars

InitCache == CacheInit /\ MemoIdle /\ NormIdle /\ FsIdle /\ HttpIdle /\ PipeIdle /\ ReqIdle /\ ShapeIdle /\ ClampIdle /\ ArgsIdle /\ UrlIdle
SpecCache == InitCache /\ [][NextCache]_vars

InitClamp == ClampInit /\ MemoIdle /\ NormIdle /\ FsIdle /\ HttpIdle /\ PipeIdle /\ ReqIdle /\ ShapeIdle /\ CacheIdle /\ ArgsIdle /\ UrlIdle
SpecClamp == InitClamp /\ [][NextClamp]_vars

InitArgs == ArgsInit /\ MemoIdle /\ NormIdle /\ FsIdle /\ HttpIdle /\ PipeIdle /\ ReqIdle /\ ShapeIdle /\ CacheIdle /\ ClampIdle /\ UrlIdle
SpecArgs == InitArgs /\ [][NextArgs]_vars

InitUrl == UrlInit /\ MemoIdle /\ NormIdle /\ FsIdle /\ HttpIdle /\ PipeIdle /\ ReqIdle /\ ShapeIdle /\ CacheIdle /\ ClampIdle /\ ArgsIdle
SpecUrl == InitUrl /\ [][NextUrl]_vars

(***************************************************************************)
(* Claims                                                                  *)
(***************************************************************************)
\* C1: for one image descriptor the producer behind src() and the producer
\* behind data() are each invoked at most once, whatever calls are made.
C1_ProducersRunOnce == srcRuns <= 1 /\ dataRuns <= 1

\* C2: once a call of src() (of data()) has failed, by a rejected promise or
\* by a throw, no later step runs the producer behind it again.
SrcHasFailed == pSrc = "rejected" \/ srcThrown > 0
DataHasFailed == pData = "rejected"
C2_FailureIsMemoized ==
  [][ /\ (SrcHasFailed => srcRuns' = srcRuns)
      /\ (DataHasFailed => dataRuns' = dataRuns) ]_vars

\* C3: whatever the root and the id, the filesystem supplier stats and reads
\* only the root directory itself or paths below it (the root followed by
\* "/" is a prefix of the path), or it fails with 403 "Forbidden path"
\* without touching the disk.
InsideRoot(root, fp) == fp = root \/ StartsWith(fp, WithTrailingSlash(root))
C3_FsStaysInRoot ==
  /\ \A a \in fsAccessed : InsideRoot(rootDir, a[2])
  /\ (fsPc \notin {"new", "created"} /\ ~InsideRoot(rootDir, fsPath)) =>
        (fsErr = CreateError("Forbidden path", 403) /\ fsAccessed = {})

\* C4: when bypassDomain is not truthy, every id handed to fetch has a
\* hostname that equals an allow-listed hostname; an id whose hostname is
\* not allow-listed fails with 403 "Forbidden host" (403 "Hostname is
\* missing" when the hostname is empty) and nothing is fetched; with an empty
\* allow-list nothing is ever fetched.
AllowListed(hostname) == hostname \in { domains[i] : i \in 1..Len(domains) }
C4_FetchOnlyAllowedHosts ==
  hBypass # "true" =>
    /\ \A u \in hFetched : ParseURL(u).ok /\ AllowListed(ParseURL(u).hostname)
    /\ (domains = <<>> => hFetched = {})
    /\ ( /\ hPc \in {"fetch", "ready", "read", "failed", "answered"}
         /\ ParseURL(hId).ok
         /\ ~AllowListed(ParseURL(hId).hostname) ) =>
           /\ hFetched = {}
           /\ hPc \in {"failed", "answered"}
           /\ hErr = IF ParseURL(hId).hostname = <<>>
                       THEN CreateError("Hostname is missing", 403)
                       ELSE CreateError("Forbidden host", 403)
\* a forbidden host and an allowed host have both been met without bypass
C4_Witness ==
  /\ hBypass # "true"
  /\ Len(domains) = 2
  /\ hFetched = {hId}
  /\ hPc = "ready"

\* C5: when the source has an mtime and the request's If-Modified-Since is a
\* date not older than it, the response is 304 with an empty body and
\* img.data() is never called; when the date is older, the request goes on
\* to img.data() and Last-Modified is the millisecond value of the mtime.
ImsIsDate ==
  /\ rqSrc.state = "ok" /\ rqSrc.hasMtime
  /\ req.headers.defined /\ req.headers.ims.present /\ req.headers.ims.valid
C5_IfModifiedSince ==
  /\ (ImsIsDate /\ req.headers.ims.time >= rqSrc.mtime) =>
        /\ rqPc = "responded"
        /\ response.statusCode = 304
        /\ response.body = EmptyBody
        /\ rqData = NoData
        /\ dataCalls = 0
  /\ (ImsIsDate /\ req.headers.ims.time < rqSrc.mtime) =>
        /\ dataCalls = 1
        /\ "Last-Modified" \in DOMAIN res.headers
        /\ res.headers["Last-Modified"] = NumStr(rqSrc.mtime)
        /\ (rqPc = "responded" /\ rqData.state = "ok") =>
              /\ response.statusCode = 200
              /\ response.headers["Last-Modified"] = NumStr(rqSrc.mtime)
\* a request whose If-Modified-Since is the very mtime was answered with 304
C5_Witness ==
  /\ rqPc = "responded"
  /\ ImsIsDate
  /\ req.headers.ims.time = rqSrc.mtime
  /\ response.statusCode = 304
  /\ srcCalls = 1
  /\ dataCalls = 0

\* C6: once the bytes are produced the ETag header is their entity tag; a
\* request whose If-None-Match equals it gets 304 with an empty body, any
\* other gets 200 with the bytes; so a request that repeats the ETag header
\* of the previous 200 response and produces the same bytes gets 304.
C6_EtagRoundTrip ==
  (rqPc = "responded" /\ rqData.state = "ok" /\ req.headers.defined) =>
    LET etag == GetEtag(rqData.data)
    IN /\ res.headers["ETag"] = etag
       /\ IF req.headers.inm = etag
            THEN response.statusCode = 304 /\ response.body = EmptyBody
            ELSE /\ response.statusCode = 200
                 /\ response.body = [kind |-> "buffer", value |-> rqData.data]
       /\ (req.headers.inm = prevOk.etag /\ rqData.data = prevOk.data) =>
             response.statusCode = 304

\* C11 (as stated): every error of a request is answered: the response has
\* the error's statusCode (500 when it has none), its "IPX: <msg>" message
\* ("IPX Error (500)" when it has none), no headers, and the body is the
\* text "IPX Error: <err>".
ErrorAnswered ==
  /\ rqPc = "responded"
  /\ response.statusCode = IF rqErr.statusCode # 0 THEN rqErr.statusCode ELSE 500
  /\ response.statusMessage = IF rqErr.statusMessage # ""
                                THEN <<"IPX: ", rqErr.statusMessage>>
                                ELSE <<"IPX Error (", "500", ")">>
  /\ response.headers = NoHeaders
  /\ response.body.kind = "string"
ShapedChar(c) ==
  CASE c = "\"" -> <<"\\", "\"">>
    [] c = "\\" -> <<"\\", "\\">>
    [] c = "\n" -> <<"\\", "n">>
    [] c = "<" -> <<"&", "l", "t", ";">>
    [] c = ">" -> <<"&", "g", "t", ";">>
    [] OTHER -> <<c>>
RECURSIVE ShapedText(_)
ShapedText(t) == IF t = <<>> THEN <<>> ELSE ShapedChar(t[1]) \o ShapedText(Tail(t))
HasChar(t, c) == \E i \in 1..Len(t) : t[i] = c
ShapedTexts ==
  { shOut.statusMessage } \cup { shOut.headers[n] : n \in DOMAIN shOut.headers }
  \cup (IF shOut.body.kind = "string" THEN { shOut.body.value } ELSE {})
C12_NoQuoteNoNewline ==
  shPc = "done" => \A t \in ShapedTexts : ~HasChar(t, "\"") /\ ~HasChar(t, "\n")

\* C12 (amended): in what the response shaper returns, no header value, no
\* status message and no string body holds a newline, and every double quote
\* of a header value or of the status message has a backslash before it.
QuotesEscaped(t) == \A i \in 1..Len(t) : t[i] = "\"" => (i > 1 /\ t[i - 1] = "\\")
C12_NoNewlineQuotesEscaped ==
  shPc = "done" =>
    /\ \A t \in ShapedTexts : ~HasChar(t, "\n")
    /\ QuotesEscaped(shOut.statusMessage)
    /\ \A n \in DOMAIN shOut.headers : QuotesEscaped(shOut.headers[n])
\* a record whose texts hold a double quote and a newline was shaped
C12_Witness ==
  /\ shPc = "done"
  /\ HasChar(shIn.statusMessage, "\"")
  /\ HasChar(shIn.statusMessage, "\n")
  /\ shIn.body.kind = "string"

\* C13: cache.set is called only in a data() invocation in which the source
\* fetch, the read, the decode and the codec's toBuffer have all succeeded,
\* and at most once; in any other invocation the cache stays as it was when
\* the invocation began.
C13_CacheSetOnCleanProduce ==
  /\ cWrites <= 1
  /\ cWrites > 0 => cStages = AllStages
  /\ cStages # AllStages => (cWrites = 0 /\ cache = cBefore)
\* a clean produce has written its entry
C13_Witness ==
  /\ cPc = "done"
  /\ cStages = AllStages
  /\ cWrites = 1
  /\ cache # cBefore

\* C14: an element data() returns from the cache was stored by a descriptor
\* with the same normalized id and the same modifier map.
C14_CacheHitSameRequest ==
  (cPc = "done" /\ cMatch) =>
    /\ cResult.src = cReq.id
    /\ cResult.by = cReq.modifiers

\* C15: when the source is an svg and neither f nor format is among the
\* modifiers, whatever else is, data() resolves with the source bytes as
\* they are and format "svg+xml": no modifier has shaped them, the codec has
\* not run and the cache has not been written.
GivesFormat(mods) ==
  \E i \in 1..Len(mods) : mods[i][1] \in { <<"f">>, <<"f", "o", "r", "m", "a", "t">> }
C15_SvgPassesThrough ==
  ({"read", "decode"} \subseteq cStages /\ cReq.type = "svg" /\ ~GivesFormat(cReq.modifiers)) =>
    /\ cPc = "done"
    /\ cResult = [src |-> cReq.id, by |-> <<>>, verbatim |-> TRUE, format |-> "svg+xml"]
    /\ "codec" \notin cStages
    /\ cWrites = 0
    /\ cache = cBefore
\* an svg asked for with a width, the cache on, was returned as it is
C15_Witness ==
  /\ cPc = "done"
  /\ cEnabled
  /\ cReq.type = "svg"
  /\ cReq.modifiers # <<>>
  /\ cResult.verbatim

\* C16: the supplier the producer of src() calls is the http supplier for an
\* id with a URL scheme and the filesystem supplier for any other id, never
\* the other one; when that supplier is not configured the producer throws
\* 400 "Unknown source" and calls no supplier at all.
SupplierFor(id) == IF HasProtocol(id) THEN "http" ELSE "filesystem"
C16_SupplierByIdShape ==
  /\ mInvoked \subseteq {SupplierFor(mId)}
  /\ (srcRuns > 0 /\ SupplierFor(mId) \in mSources) =>
        (mInvoked = {SupplierFor(mId)} /\ mErr = NoError)
  /\ (srcRuns > 0 /\ SupplierFor(mId) \notin mSources) =>
        (mInvoked = {} /\ mErr = CreateError("Unknown source", 400) /\ pSrc = "none")
\* an id with a scheme that is not http met a context with the filesystem
\* supplier only
C16_Witness ==
  /\ srcRuns > 0
  /\ mId = <<"x", ":", "a">>
  /\ mSources = {"filesystem"}
  /\ mErr = CreateError("Unknown source", 400)

\* C17: once the path check has passed, a stat failure "not found" gives 404
\* "File not found", any other stat failure 403 "File access error <code>",
\* something that is no regular file 400 "Path should be a file", and a
\* descriptor (mtime of stat, configured maxAge) is returned for a regular
\* file only; a path that fails the check gives 403 "Forbidden path" before
\* any stat, never 404 or 400.
C17_FsErrorMapping ==
  /\ fsDesc.returned => (fsFound = "file" /\ fsErr = NoError /\ fsDesc.maxAge = fsMaxAge)
  /\ fsPc \in {"failed", "ready", "read"} =>
       IF ~PathAllowed(rootDir, fsPath)
         THEN /\ fsErr = CreateError("Forbidden path", 403)
              /\ fsFound = "none"
              /\ \A a \in fsAccessed : a[1] # "stat"
              /\ ~fsDesc.returned
         ELSE /\ fsFound = "ENOENT" =>
                   (fsErr = CreateError("File not found", 404) /\ ~fsDesc.returned)
              /\ fsFound = "EACCES" =>
                   (fsErr = CreateError("File access error EACCES", 403) /\ ~fsDesc.returned)
              /\ fsFound = "directory" =>
                   (fsErr = CreateError("Path should be a file", 400) /\ ~fsDesc.returned)
              /\ fsFound = "file" => (fsErr = NoError /\ fsDesc.returned)
              /\ fsFound # "none"
\* a directory inside the root was refused with 400
C17_Witness ==
  /\ fsPc = "failed"
  /\ PathAllowed(rootDir, fsPath)
  /\ fsFound = "directory"
  /\ fsErr.statusCode = 400

\* C18: when the origin answers with a status outside 200..299 the supplier
\* fails with that status (500 when the status is missing), returns no
\* descriptor, the body is never read, and the response of handleRequest
\* carries the same status code.
C18_UpstreamStatusPropagates ==
  (hAnswered /\ hStatus \notin 200..299) =>
     /\ hErr = CreateError("Fetch error", IF hStatus = 0 THEN 500 ELSE hStatus)
     /\ ~hDesc.returned
     /\ hBodyReads = 0
     /\ hPc \in {"failed", "answered"}
     /\ hPc = "answered" =>
          hResponse.statusCode = (IF hStatus = 0 THEN 500 ELSE hStatus)
\* the origin said 503 and the request was answered with 503
C18_Witness ==
  /\ hAnswered
  /\ hStatus = 503
  /\ hPc = "answered"
  /\ hResponse.statusCode = 503

\* C19: every response of handleRequest with status 200 has the header
\* Content-Security-Policy: default-src 'none', an ETag header, and the
\* header Content-Type: image/<format>, <format> being the format data()
\* resolved with.
C19_OkResponseHeaders ==
  (rqPc = "responded" /\ response.statusCode = 200) =>
     /\ {"Content-Security-Policy", "ETag", "Content-Type"} \subseteq DOMAIN response.headers
     /\ response.headers["Content-Security-Policy"]
          = <<"d", "e", "f", "a", "u", "l", "t", "-", "s", "r", "c", " ", "'", "n", "o", "n", "e", "'">>
     /\ response.headers["Content-Type"] = <<"i", "m", "a", "g", "e", "/">> \o rqData.format

\* C20: when the modifier map has enlarge and any of w, width, h, height, s,
\* resize, in whatever order they were written, the resize is made with the
\* enlarge flag set: w, width, h, height call resize with withoutEnlargement
\* false, s and resize do not clamp; without enlarge withoutEnlargement is
\* true and the size is clamped.
ResizeNames ==
  { <<"w">>, <<"w", "i", "d", "t", "h">>, <<"h">>, <<"h", "e", "i", "g", "h", "t">>,
    <<"s">>, <<"r", "e", "s", "i", "z", "e">> }
HasEnlarge == Modifier(modifiers, <<"e", "n", "l", "a", "r", "g", "e">>) # NoValue
C20_EnlargeBeforeResize ==
  plPc \in {"buffer", "done", "failed"} =>
    /\ \A i \in 1..Len(modifiers) :
         modifiers[i][1] \in ResizeNames =>
           \E k \in 1..Len(pipe) : pipe[k].by = modifiers[i][1] /\ pipe[k].method = "resize"
    /\ \A k \in 1..Len(pipe) :
         pipe[k].by \in ResizeNames =>
           /\ pipe[k].enlarge = HasEnlarge
           /\ pipe[k].by \in { <<"s">>, <<"r", "e", "s", "i", "z", "e">> } =>
                (pipe[k].clamped = ~HasEnlarge)
           /\ pipe[k].by \notin { <<"s">>, <<"r", "e", "s", "i", "z", "e">> } =>
                (pipe[k].withoutEnlargement = ~HasEnlarge)
\* a width and a size written before enlarge were applied after it
C20_Witness ==
  /\ plPc = "done"
  /\ Len(modifiers) = 3
  /\ modifiers[1][1] = <<"h">>
  /\ modifiers[2][1] = <<"s">>
  /\ modifiers[3][1] = <<"e", "n", "l", "a", "r", "g", "e">>
  /\ \A k \in 1..Len(pipe) : ~pipe[k].withoutEnlargement /\ ~pipe[k].clamped
  /\ Len(pipe) = 2

\* C7: whatever the insertion order of the modifiers, every context-setter
\* handler present (q/quality, fit, pos/position, b/background, enlarge) is
\* applied before every pipeline-operation handler present.
IsSetterName(n) == GetHandler(n).setter
IsOperationName(n) == GetHandler(n) # NoHandler /\ ~GetHandler(n).setter
C7_SettersBeforeOperations ==
  \A i, j \in 1..Len(applied) :
    (IsOperationName(applied[i]) /\ IsSetterName(applied[j])) => j < i

\* C8: the id ipx works with has a URL scheme or starts with "/".
C8_NormalizedIdShape ==
  nPc = "called" => (HasProtocol(nId) \/ StartsWith(nId, <<"/">>))

\* C9: at most one alias entry rewrites the id, and it is the first entry
\* whose base is a prefix of the normalized id.
FirstMatchRewrite(alias, id) ==
  IF \E i \in 1..Len(alias) : StartsWith(id, alias[i][1])
    THEN LET i == CHOOSE k \in 1..Len(alias) :
                    /\ StartsWith(id, alias[k][1])
                    /\ \A j \in 1..(k - 1) : ~StartsWith(id, alias[j][1])
         IN JoinURL(alias[i][2], Substr(id, Len(alias[i][1])))
    ELSE id
C9_OneAliasRewrite ==
  nPc = "called" =>
    /\ nFired <= 1
    /\ nId = FirstMatchRewrite(nAlias,
               IF HasProtocol(nInput) THEN nInput ELSE WithLeadingSlash(nInput))

\* C10: a url whose first path segment is empty is answered with 400
\* "Modifiers are missing"; otherwise a url whose decoded id is empty or "/"
\* is answered with 400 "Resource id is missing"; in both cases ipx() is
\* never called, and neither is a supplier or the pipeline.
UrlSegments == Split(Substr(req.url, 1), "/")
Answered400(message) ==
  /\ rqPc = "responded"
  /\ response.statusCode = 400
  /\ response.statusMessage = <<"IPX: ", message>>
  /\ engineCalls = 0
  /\ srcCalls = 0
  /\ dataCalls = 0
C10_MissingPartsAre400 ==
  rqPc # "idle" =>
    /\ UrlSegments[1] = <<>> => Answered400("Modifiers are missing")
    /\ ( /\ UrlSegments[1] # <<>>
         /\ Decode(JoinWith(Tail(UrlSegments), "/")) \in { <<>>, <<"/">> } ) =>
           Answered400("Resource id is missing")
\* a url with modifiers whose id decodes to "/" was answered with 400
C10_Witness ==
  /\ rqPc = "responded"
  /\ UrlSegments[1] # <<>>
  /\ Decode(JoinWith(Tail(UrlSegments), "/")) = <<"/">>
  /\ response.statusCode = 400
  /\ engineCalls = 0

\* C21: the s/resize handler without enlarge, for a size of positive integers
\* W and H (H = W when missing) and a source of positive dimensions, passes
\* to resize a width of at most the source's width and a height of at most
\* the source's height, both at least 1, and the size as it is when it fits
\* the source.
C21_ClampWithinSource ==
  (clPc = "resized" /\ ~clEnlarge) =>
    LET h == IF clH = 0 THEN clW ELSE clH
    IN /\ clOut.width <= clSrc.width
       /\ clOut.height <= clSrc.height
       /\ clOut.width >= 1
       /\ clOut.height >= 1
       /\ (clW <= clSrc.width /\ h <= clSrc.height) =>
            clOut = [width |-> clW, height |-> h]

\* C22: an entry of the modifier segment that writes all the arguments of its
\* handler with the separators of the URL grammar (extend_T_R_B_L) reaches
\* the codec with every argument: extend with top, right, bottom, left,
\* sharpen with sigma, flat, jagged, gamma with in, out.
C22_AllArgumentsReachCodec ==
  (aPc = "applied" /\ aInner \in { <<"_">>, <<":">> }) =>
    /\ aCall.method = GetHandler(aName).method
    /\ aCall.args = aArgs

\* C23: the format of data() is the f/format modifier if given, else the
\* type of the source, "jpg" read as "jpeg"; toFormat is called, once and
\* after all handlers, iff the format is one of jpeg, png, webp, avif, tiff,
\* gif, with progressive true iff the format is jpeg and with the quality the
\* q/quality setter stored (undefined when absent).
GivenFormat ==
  LET f == Modifier(modifiers, <<"f">>)
      g == Modifier(modifiers, <<"f", "o", "r", "m", "a", "t">>)
  IN IF f \notin {NoValue, <<>>} THEN f
     ELSE IF g \notin {NoValue, <<>>} THEN g
     ELSE TypeText(metaType)
SelectedFormat ==
  IF GivenFormat = <<"j", "p", "g">> THEN <<"j", "p", "e", "g">> ELSE GivenFormat
StoredQuality ==
  IF \E i \in 1..Len(modifiers) :
       modifiers[i][1] \in { <<"q">>, <<"q", "u", "a", "l", "i", "t", "y">> }
    THEN <<"1">> ELSE NoValue
ToFormatAsSelected ==
  plPc \in {"buffer", "done", "failed"} =>
    /\ Len(toFormatCalls) <= 1
    /\ Len(toFormatCalls) = 1 <=>
         SelectedFormat \in { <<"j", "p", "e", "g">>, <<"p", "n", "g">>,
                              <<"w", "e", "b", "p">>, <<"a", "v", "i", "f">>,
                              <<"t", "i", "f", "f">>, <<"g", "i", "f">> }
    /\ \A k \in 1..Len(toFormatCalls) :
         /\ toFormatCalls[k].format = SelectedFormat
         /\ toFormatCalls[k].progressive = (SelectedFormat = <<"j", "p", "e", "g">>)
         /\ toFormatCalls[k].quality = StoredQuality
         /\ toFormatCalls[k].afterCalls = Len(pipe)
C24_CacheHitFrame ==
  LET key == CacheKey(cReq.id, cReq.modifiers)
  IN /\ (cEnabled /\ cPc \notin {"idle", "get", "failed"} /\ key \in DOMAIN cBefore) =>
          /\ cPc = "done"
          /\ cResult = cBefore[key]
          /\ cReads = 1
          /\ cStages = {}
          /\ cWrites = 0
          /\ cache = cBefore
     /\ ~cEnabled => (cReads = 0 /\ cWrites = 0 /\ cache = cBefore)
\* an element stored by one request was returned to the next one
C24_Witness ==
  /\ cEnabled
  /\ cCount = 2
  /\ cPc = "done"
  /\ cBefore # StoredBefore
  /\ CacheKey(cReq.id, cReq.modifiers) \in DOMAIN cBefore
  /\ cStages = {}

\* C25: in one execution of handleRequest img.src() and img.data() are each
\* called at most once, img.data() only after img.src() has resolved; when
\* img.src() fails the response is the error response and img.data() (and
\* with it the cache and the codec) is never called for that request.
C25_DataOnlyAfterSrc ==
  /\ srcCalls <= 1
  /\ dataCalls <= 1
  /\ dataCalls = 1 => (srcCalls = 1 /\ rqSrc.state = "ok")
  /\ rqData.state # "none" => dataCalls = 1
  /\ rqSrc.state = "error" => rqPc = "responded"
  /\ (rqPc = "responded" /\ srcCalls = 1 /\ rqSrc.state # "ok") =>
       /\ rqErr # NotThrown
       /\ response = ErrorResponse(rqErr)
       /\ response.statusCode >= 400
       /\ dataCalls = 0
       /\ rqData = NoData
\* a request whose file was not found was answered 404 without data()
C25_Witness ==
  /\ rqPc = "responded"
  /\ rqSrc.state = "error"
  /\ response.statusCode = 404
  /\ srcCalls = 1
  /\ dataCalls = 0

\* C26: a request never takes from the url cache an entry whose timestamp is
\* more than expiry seconds old: when it has looked up its url no expired
\* entry is left in the map; and an entry stored for a url is neither
\* replaced nor removed by any request until it has expired.
OlderThanExpiry(entry, now) == now - entry.timestamp > entry.expiry
LookupIsFresh ==
  \A c \in Clients :
    (uReq[c].pc # "idle" /\ uReq[c].hit) =>
      uReq[c].hitAge <= uReq[c].hitExpiry
LookupClearsExpired ==
  \A c \in Clients :
    (uReq[c].pc = "idle" /\ uReq'[c].pc = "awaitSrc") =>
      \A u \in DOMAIN uCache' : ~OlderThanExpiry(uCache'[u], uNow)
EntryStaysUntilExpired ==
  \A u \in DOMAIN uCache :
    (u \notin DOMAIN uCache' \/ uCache'[u] # uCache[u]) =>
      OlderThanExpiry(uCache[u], uNow)
C26_NoExpiredReuse ==
  /\ []LookupIsFresh
  /\ [][LookupClearsExpired /\ EntryStaysUntilExpired]_vars
\* an entry was reused at the last second of its life
C26_Witness ==
  \E c \in Clients :
    /\ uReq[c].pc = "awaitData"
    /\ uReq[c].hit
    /\ uReq[c].hitExpiry >= 1
    /\ uReq[c].hitAge = uReq[c].hitExpiry

\* C27: the url cache keeps a descriptor only if its production succeeded: a
\* request whose img.data() failed leaves no descriptor that a later request
\* for the url reuses; and with the cache off the map stays empty and every
\* request builds a new descriptor.
C27_UrlCacheOnlyCleanProduce ==
  /\ \A u \in DOMAIN uCache : uImgs[uCache[u].element].data # "failed"
  /\ \A c \in Clients : uReq[c].hit => ~uReq[c].hitFailed
  /\ ~uEnabled => (uCache = NoUrlEntries /\ \A c \in Clients : ~uReq[c].hit)

\* C28: a request without a headers field is answered like one with an empty
\* header map: when its image resolves (the source is found and the data is
\* produced) the response is 200 with the image as body, Last-Modified set
\* when the source has an mtime, and it is never the error response.
C28_AbsentHeadersLikeEmpty ==
  (/\ rqPc = "responded"
   /\ ~req.headers.defined
   /\ rqSrc.state = "ok"
   /\ rqData.state # "error") =>
     /\ rqErr = NotThrown
     /\ response.statusCode = 200
     /\ response.body.kind = "buffer"
     /\ rqSrc.hasMtime => "Last-Modified" \in DOMAIN response.headers

====
